---- MODULE Spec2Model ----
(***************************************************************************)
(* A model of the boa parser front-end fragments: the reserved-word        *)
(* catalogue (syntax/ast/keyword.rs), the property descriptor record       *)
(* (builtins/property.rs), the object-initializer productions              *)
(* (syntax/parser/expression/primary/object_initializer/mod.rs) and the    *)
(* variable statement productions (syntax/parser/statement/variable.rs).   *)
(***************************************************************************)
EXTENDS Integers, Sequences, FiniteSets, TLC

VARIABLES
    kw_pc,      \* keyword pipeline: "init", "have_key", "have_str", "parsed", "rendered"
    kw_key,     \* the Keyword variant the pipeline started from ("none" if it started from a string)
    kw_str,     \* the string handed to Keyword::from_str
    kw_res,     \* the Result of Keyword::from_str(kw_str)
    kw_out,     \* the rendering of the parsed keyword
    prop,       \* the Property record under construction
    prop_src,   \* how prop was produced: "new", "default", "builder" or "from_value"
    prop_call,  \* the from_value call prop comes from, its argument v and its Result; none otherwise
    start_production, \* the start_production under test: "ObjectLiteral" or "VariableStatement"
    self_allow_yield, \* the AllowYield the start_production was created with
    self_allow_await, \* the AllowAwait the start_production was created with
    tokens,     \* the token stream the lexer has produced
    pc,         \* "lexing" while the stream grows, "done" once the start_production returned
    result      \* what parse returned, with the cursor and interner as it left them

kwVars == <<kw_pc, kw_key, kw_str, kw_res, kw_out>>
propVars == <<prop, prop_src, prop_call>>
parserVars == <<start_production, self_allow_yield, self_allow_await, tokens, pc, result>>
vars == <<kw_pc, kw_key, kw_str, kw_res, kw_out, prop, prop_src, prop_call,
          start_production, self_allow_yield, self_allow_await, tokens, pc, result>>

(***************************************************************************)
(* Rust's Option and Result.                                               *)
(***************************************************************************)
None == <<>>
Some(v) == <<v>>
is_some(o) == o # <<>>
is_none(o) == o = <<>>
unwrap(o) == o[1]

Ok(v) == [tag |-> "Ok", val |-> v]
Err(e) == [tag |-> "Err", val |-> e]
is_ok(r) == r.tag = "Ok"

(***************************************************************************)
(* syntax/ast/keyword.rs                                                   *)
(***************************************************************************)
\* The variants of `enum Keyword`, in declaration order.
Keyword ==
    { "Await", "Break", "Case", "Catch", "Class", "Continue",
      "Const", "Debugger", "Default", "Delete", "Do", "Else",
      "Enum", "Export", "Extends", "Finally", "For", "Function",
      "If", "In", "InstanceOf", "Import", "Let", "New",
      "Return", "Super", "Switch", "This", "Throw", "Try",
      "TypeOf", "Var", "Void", "While", "With", "Yield" }

KeywordError == "KeywordError"

\* A from_str that also accepts two case variants.
from_str_caseless(s) ==
    CASE s = "await" -> Ok("Await")
      [] s = "break" -> Ok("Break")
      [] s = "case" -> Ok("Case")
      [] s = "catch" -> Ok("Catch")
      [] s = "class" -> Ok("Class")
      [] s = "continue" -> Ok("Continue")
      [] s = "const" -> Ok("Const")
      [] s = "debugger" -> Ok("Debugger")
      [] s = "default" -> Ok("Default")
      [] s = "delete" -> Ok("Delete")
      [] s = "do" -> Ok("Do")
      [] s = "else" -> Ok("Else")
      [] s = "enum" -> Ok("Enum")
      [] s = "extends" -> Ok("Extends")
      [] s = "export" -> Ok("Export")
      [] s = "finally" -> Ok("Finally")
      [] s = "for" -> Ok("For")
      [] s = "function" -> Ok("Function")
      [] s = "if" -> Ok("If")
      [] s = "in" -> Ok("In")
      [] s = "instanceof" -> Ok("InstanceOf")
      [] s = "import" -> Ok("Import")
      [] s = "let" -> Ok("Let")
      [] s = "new" -> Ok("New")
      [] s = "return" -> Ok("Return")
      [] s = "super" -> Ok("Super")
      [] s = "switch" -> Ok("Switch")
      [] s = "this" -> Ok("This")
      [] s = "throw" -> Ok("Throw")
      [] s = "try" -> Ok("Try")
      [] s = "typeof" -> Ok("TypeOf")
      [] s = "var" -> Ok("Var")
      [] s = "void" -> Ok("Void")
      [] s = "while" -> Ok("While")
      [] s = "with" -> Ok("With")
      [] s = "yield" -> Ok("Yield")
      [] s = "Var" -> Ok("Var")
      [] s = "IF" -> Ok("If")
      [] OTHER -> Err(KeywordError)

\* <Keyword as FromStr>::from_str, arm for arm.
from_str(s) ==
    CASE s = "await" -> Ok("Await")
      [] s = "break" -> Ok("Break")
      [] s = "case" -> Ok("Case")
      [] s = "catch" -> Ok("Catch")
      [] s = "class" -> Ok("Class")
      [] s = "continue" -> Ok("Continue")
      [] s = "const" -> Ok("Const")
      [] s = "debugger" -> Ok("Debugger")
      [] s = "default" -> Ok("Default")
      [] s = "delete" -> Ok("Delete")
      [] s = "do" -> Ok("Do")
      [] s = "else" -> Ok("Else")
      [] s = "enum" -> Ok("Enum")
      [] s = "extends" -> Ok("Extends")
      [] s = "export" -> Ok("Export")
      [] s = "finally" -> Ok("Finally")
      [] s = "for" -> Ok("For")
      [] s = "function" -> Ok("Function")
      [] s = "if" -> Ok("If")
      [] s = "in" -> Ok("In")
      [] s = "instanceof" -> Ok("InstanceOf")
      [] s = "import" -> Ok("Import")
      [] s = "let" -> Ok("Let")
      [] s = "new" -> Ok("New")
      [] s = "return" -> Ok("Return")
      [] s = "super" -> Ok("Super")
      [] s = "switch" -> Ok("Switch")
      [] s = "this" -> Ok("This")
      [] s = "throw" -> Ok("Throw")
      [] s = "try" -> Ok("Try")
      [] s = "typeof" -> Ok("TypeOf")
      [] s = "var" -> Ok("Var")
      [] s = "void" -> Ok("Void")
      [] s = "while" -> Ok("While")
      [] s = "with" -> Ok("With")
      [] s = "yield" -> Ok("Yield")
      [] OTHER -> Err(KeywordError)

\* A rendering table with the arms of Extends and Export exchanged.
to_string_swapped(k) ==
    CASE k = "Await" -> "await"
      [] k = "Break" -> "break"
      [] k = "Case" -> "case"
      [] k = "Catch" -> "catch"
      [] k = "Class" -> "class"
      [] k = "Continue" -> "continue"
      [] k = "Const" -> "const"
      [] k = "Debugger" -> "debugger"
      [] k = "Default" -> "default"
      [] k = "Delete" -> "delete"
      [] k = "Do" -> "do"
      [] k = "Else" -> "else"
      [] k = "Enum" -> "enum"
      [] k = "Extends" -> "export"
      [] k = "Export" -> "extends"
      [] k = "Finally" -> "finally"
      [] k = "For" -> "for"
      [] k = "Function" -> "function"
      [] k = "If" -> "if"
      [] k = "In" -> "in"
      [] k = "InstanceOf" -> "instanceof"
      [] k = "Import" -> "import"
      [] k = "Let" -> "let"
      [] k = "New" -> "new"
      [] k = "Return" -> "return"
      [] k = "Super" -> "super"
      [] k = "Switch" -> "switch"
      [] k = "This" -> "this"
      [] k = "Throw" -> "throw"
      [] k = "Try" -> "try"
      [] k = "TypeOf" -> "typeof"
      [] k = "Var" -> "var"
      [] k = "Void" -> "void"
      [] k = "While" -> "while"
      [] k = "With" -> "with"
      [] k = "Yield" -> "yield"

\* <Keyword as Display>::fmt, arm for arm (to_string is the text it writes).
to_string(k) ==
    CASE k = "Await" -> "await"
      [] k = "Break" -> "break"
      [] k = "Case" -> "case"
      [] k = "Catch" -> "catch"
      [] k = "Class" -> "class"
      [] k = "Continue" -> "continue"
      [] k = "Const" -> "const"
      [] k = "Debugger" -> "debugger"
      [] k = "Default" -> "default"
      [] k = "Delete" -> "delete"
      [] k = "Do" -> "do"
      [] k = "Else" -> "else"
      [] k = "Enum" -> "enum"
      [] k = "Extends" -> "extends"
      [] k = "Export" -> "export"
      [] k = "Finally" -> "finally"
      [] k = "For" -> "for"
      [] k = "Function" -> "function"
      [] k = "If" -> "if"
      [] k = "In" -> "in"
      [] k = "InstanceOf" -> "instanceof"
      [] k = "Import" -> "import"
      [] k = "Let" -> "let"
      [] k = "New" -> "new"
      [] k = "Return" -> "return"
      [] k = "Super" -> "super"
      [] k = "Switch" -> "switch"
      [] k = "This" -> "this"
      [] k = "Throw" -> "throw"
      [] k = "Try" -> "try"
      [] k = "TypeOf" -> "typeof"
      [] k = "Var" -> "var"
      [] k = "Void" -> "void"
      [] k = "While" -> "while"
      [] k = "With" -> "with"
      [] k = "Yield" -> "yield"

\* The strings the keyword pipeline is driven with that are not reserved words:
\* case variants, prefixes, extensions, padded forms and the empty string.
NonKeywordStrings ==
    { "", "Var", "VAR", "IF", "If", "Await", "instanceOf", "typeOf", "TypeOf",
      "va", "v", "vars", "variable", " var", "var ", "i", "inn", "doo", "d",
      "get", "set", "of", "static", "async", "undefined", "null", "true" }

\* The 36 reserved words.
ReservedWords ==
    { "await", "break", "case", "catch", "class", "const", "continue",
      "debugger", "default", "delete", "do", "else", "enum", "export",
      "extends", "finally", "for", "function", "if", "import", "in",
      "instanceof", "let", "new", "return", "super", "switch", "this",
      "throw", "try", "typeof", "var", "void", "while", "with", "yield" }

KwPending == [tag |-> "Pending", val |-> "none"]

KwInit ==
    /\ kw_pc = "init"
    /\ kw_key = "none"
    /\ kw_str = "none"
    /\ kw_res = KwPending
    /\ kw_out = "none"

\* A caller picks a Keyword variant to render.
ChooseKeyword ==
    /\ kw_pc = "init"
    /\ \E k \in Keyword : kw_key' = k
    /\ kw_pc' = "have_key"
    /\ UNCHANGED <<kw_str, kw_res, kw_out, propVars, parserVars>>

\* k.to_string()
RenderKeyword ==
    /\ kw_pc = "have_key"
    /\ kw_str' = to_string(kw_key)
    /\ kw_pc' = "have_str"
    /\ UNCHANGED <<kw_key, kw_res, kw_out, propVars, parserVars>>

\* A caller (the lexer) picks a string to look up.
ChooseString ==
    /\ kw_pc = "init"
    /\ \E s \in ReservedWords \cup NonKeywordStrings : kw_str' = s
    /\ kw_pc' = "have_str"
    /\ UNCHANGED <<kw_key, kw_res, kw_out, propVars, parserVars>>

\* Keyword::from_str(s)
ParseKeyword ==
    /\ kw_pc = "have_str"
    /\ kw_res' = from_str(kw_str)
    /\ kw_pc' = "parsed"
    /\ UNCHANGED <<kw_key, kw_str, kw_out, propVars, parserVars>>

\* Rendering of a successfully parsed keyword.
RenderParsed ==
    /\ kw_pc = "parsed"
    /\ is_ok(kw_res)
    /\ kw_out' = to_string(kw_res.val)
    /\ kw_pc' = "rendered"
    /\ UNCHANGED <<kw_key, kw_str, kw_res, propVars, parserVars>>

(***************************************************************************)
(* builtins/property.rs                                                    *)
(***************************************************************************)
\* Bound: the number of distinct function objects used as getters, setters and values.
NumFunctions == 1

\* The JavaScript values stored in a Property: undefined, the booleans and function objects.
Undefined == [type |-> "Undefined", data |-> "undefined"]
Boolean(b) == [type |-> "Boolean", data |-> IF b THEN "true" ELSE "false"]
Function(n) == [type |-> "Function", data |-> ToString(n)]
Value == {Undefined, Boolean(TRUE), Boolean(FALSE)} \cup {Function(n) : n \in 1..NumFunctions}

\* The names of the six fields of the record.
FieldNames == {"configurable", "enumerable", "writable", "value", "get", "set"}

\* Property::new
Property_new ==
    [configurable |-> None, enumerable |-> None, writable |-> None,
     value |-> None, get |-> None, set |-> None]

\* <Property as Default>::default
Property_default ==
    [configurable |-> None, enumerable |-> None, writable |-> None,
     value |-> None, get |-> None, set |-> None]

\* Property::configurable
Property_configurable(self, configurable) == [self EXCEPT !.configurable = Some(configurable)]

\* Property::enumerable
Property_enumerable(self, enumerable) == [self EXCEPT !.enumerable = Some(enumerable)]

\* Property::writable
Property_writable(self, writable) == [self EXCEPT !.writable = Some(writable)]

\* Property::value
Property_value(self, value) == [self EXCEPT !.value = Some(value)]

\* Property::get
Property_get(self, get) == [self EXCEPT !.get = Some(get)]

\* Property::set
Property_set(self, set) == [self EXCEPT !.set = Some(set)]

\* Property::is_none
Property_is_none(self) ==
    /\ is_none(self.get)
    /\ is_none(self.set)
    /\ is_none(self.writable)
    /\ is_none(self.configurable)
    /\ is_none(self.enumerable)

\* Property::is_accessor_descriptor
is_accessor_descriptor(self) == is_some(self.get) \/ is_some(self.set)

\* A data-descriptor test that looks at value only.
is_data_descriptor_value_only(self) == is_some(self.value)

\* Property::is_data_descriptor
is_data_descriptor(self) == is_some(self.value) \/ is_some(self.writable)

\* Property::is_generic_descriptor
is_generic_descriptor(self) == ~is_accessor_descriptor(self) /\ ~is_data_descriptor(self)

\* A field of an object value: a value, or Absent when the object has no such field.
Absent == [type |-> "Absent", data |-> "absent"]

\* The object values handed to from_value: each of the six fields present or absent.
ObjectValue == [FieldNames -> Value \cup {Absent}]

\* Value::get_field_slice on an object value: the field, or undefined when it is missing.
get_field_slice(v, field) == IF v[field] = Absent THEN Undefined ELSE v[field]

\* from_value::<bool>: a boolean converts to itself, anything else does not convert.
from_value_bool(v) == IF v.type = "Boolean" THEN Ok(v.data = "true") ELSE Err("not a boolean")

\* from_value with the defaults of ECMAScript's ToPropertyDescriptor: a field that is
\* missing on the input is absent on the record.
Property_from_value_absent_default(v) ==
    Ok([configurable |->
            LET r == from_value_bool(get_field_slice(v, "configurable"))
            IN  IF is_ok(r) THEN Some(r.val) ELSE None,
        enumerable |->
            LET r == from_value_bool(get_field_slice(v, "enumerable"))
            IN  IF is_ok(r) THEN Some(r.val) ELSE None,
        writable |->
            LET r == from_value_bool(get_field_slice(v, "writable"))
            IN  IF is_ok(r) THEN Some(r.val) ELSE None,
        value |-> IF v["value"] = Absent THEN None ELSE Some(v["value"]),
        get |-> IF v["get"] = Absent THEN None ELSE Some(v["get"]),
        set |-> IF v["set"] = Absent THEN None ELSE Some(v["set"])])

\* <Property as FromValue>::from_value
Property_from_value(v) ==
    Ok([configurable |->
            LET r == from_value_bool(get_field_slice(v, "configurable"))
            IN  IF is_ok(r) THEN Some(r.val) ELSE Some(FALSE),
        enumerable |->
            LET r == from_value_bool(get_field_slice(v, "enumerable"))
            IN  IF is_ok(r) THEN Some(r.val) ELSE Some(FALSE),
        writable |->
            LET r == from_value_bool(get_field_slice(v, "writable"))
            IN  IF is_ok(r) THEN Some(r.val) ELSE Some(FALSE),
        value |-> Some(get_field_slice(v, "value")),
        get |-> Some(get_field_slice(v, "get")),
        set |-> Some(get_field_slice(v, "set"))])

\* The record right after construction, by Property::new() or by Property::default().
PropInit ==
    /\ \/ prop = Property_new /\ prop_src = "new"
       \/ prop = Property_default /\ prop_src = "default"
    /\ prop_call = None

\* p = p.configurable(b)
SetConfigurable ==
    /\ \E b \in BOOLEAN : prop' = Property_configurable(prop, b)
    /\ prop_src' = "builder"
    /\ prop_call' = None
    /\ UNCHANGED <<kwVars, parserVars>>

\* p = p.enumerable(b)
SetEnumerable ==
    /\ \E b \in BOOLEAN : prop' = Property_enumerable(prop, b)
    /\ prop_src' = "builder"
    /\ prop_call' = None
    /\ UNCHANGED <<kwVars, parserVars>>

\* p = p.writable(b)
SetWritable ==
    /\ \E b \in BOOLEAN : prop' = Property_writable(prop, b)
    /\ prop_src' = "builder"
    /\ prop_call' = None
    /\ UNCHANGED <<kwVars, parserVars>>

\* p = p.value(v)
SetValue ==
    /\ \E v \in Value : prop' = Property_value(prop, v)
    /\ prop_src' = "builder"
    /\ prop_call' = None
    /\ UNCHANGED <<kwVars, parserVars>>

\* p = p.get(v)
SetGet ==
    /\ \E v \in Value : prop' = Property_get(prop, v)
    /\ prop_src' = "builder"
    /\ prop_call' = None
    /\ UNCHANGED <<kwVars, parserVars>>

\* p = p.set(v)
SetSet ==
    /\ \E v \in Value : prop' = Property_set(prop, v)
    /\ prop_src' = "builder"
    /\ prop_call' = None
    /\ UNCHANGED <<kwVars, parserVars>>

\* let p = from_value(v)?  (a constructor: it starts a record, as new() and default() do;
\* a value without fields reads like an object with all six absent)
FromValue ==
    /\ prop_src \in {"new", "default"}
    /\ \E v \in ObjectValue :
           /\ prop_call' = Some([v |-> v, res |-> Property_from_value(v)])
           /\ prop' = IF is_ok(Property_from_value(v))
                      THEN Property_from_value(v).val
                      ELSE prop
    /\ prop_src' = "from_value"
    /\ UNCHANGED <<kwVars, parserVars>>

(***************************************************************************)
(* Tokens, parse errors, interner and cursor: the collaborators of the     *)
(* productions (syntax/ast/token.rs, punc.rs, parser/error.rs, cursor.rs   *)
(* and the string interner).                                               *)
(***************************************************************************)
\* Bound: the number of tokens of the input stream.
MaxTokens == 8

\* TokenKind values.
Punctuator(p) == [type |-> "Punctuator", data |-> p]
Identifier(name) == [type |-> "Identifier", data |-> name]
NumericLiteral(n) == [type |-> "NumericLiteral", data |-> n]
KeywordToken(k) == [type |-> "Keyword", data |-> k]
LineTerminator == [type |-> "LineTerminator", data |-> "LineTerminator"]

\* <Punctuator as Display>::fmt
Punctuator_to_string(p) ==
    CASE p = "OpenBlock" -> "{"
      [] p = "CloseBlock" -> "}"
      [] p = "Comma" -> ","
      [] p = "Colon" -> ":"
      [] p = "OpenParen" -> "("
      [] p = "CloseParen" -> ")"
      [] p = "Spread" -> "..."
      [] p = "Assign" -> "="
      [] p = "Semicolon" -> ";"

\* <TokenKind as Display>::fmt
TokenKind_to_string(kind) ==
    CASE kind.type = "Punctuator" -> Punctuator_to_string(kind.data)
      [] kind.type = "Keyword" -> to_string(kind.data)
      [] kind.type = "LineTerminator" -> "line terminator"
      [] OTHER -> kind.data

\* The token kinds the lexer hands to the cursor while an object literal is parsed,
\* and while a variable statement is parsed.
TokenKinds(prod) ==
    IF prod = "ObjectLiteral"
    THEN {Punctuator(p) : p \in {"OpenBlock", "CloseBlock", "Comma", "Colon",
                                  "OpenParen", "CloseParen", "Spread"}}
             \cup {Identifier("a"), Identifier("get"), Identifier("set")}
    ELSE {Punctuator(p) : p \in {"Assign", "Semicolon", "Comma", "CloseBlock", "Colon"}}
             \cup {Identifier("a"), Identifier("get"), NumericLiteral("1"),
                   KeywordToken("Var")}

\* Token: a kind and the position the lexer found it at.
Token(kind, pos) == [kind |-> kind, pos |-> pos]

\* ParseError::AbruptEnd
AbruptEnd == [type |-> "AbruptEnd"]

\* ParseError::expected(expected, found, pos, context)
ParseError_expected(expected, found, pos, context) ==
    [type |-> "Expected", expected |-> expected, found |-> found, pos |-> pos,
     context |-> context]

\* ParseError::Expected(expected, found_token, context), the constructor variable.rs uses
ParseError_Expected(expected, tok, context) ==
    [type |-> "Expected", expected |-> expected, found |-> tok, pos |-> tok.pos,
     context |-> context]

\* ParseError::unexpected(found, pos, message)
ParseError_unexpected(found, pos, message) ==
    [type |-> "Unexpected", found |-> found, pos |-> pos, message |-> message]

\* ParseError::general(message, pos)
ParseError_general(message, pos) ==
    [type |-> "General", message |-> message, pos |-> pos]

\* Interner: the strings in the order they were interned; a Sym is an index into it.
RECURSIVE Interner_find(_, _, _)
Interner_find(interner, s, n) ==
    IF n > Len(interner) THEN 0
    ELSE IF interner[n] = s THEN n
    ELSE Interner_find(interner, s, n + 1)

\* Interner::get_or_intern
get_or_intern(interner, s) ==
    LET n == Interner_find(interner, s, 1)
    IN  IF n = 0
        THEN [sym |-> Len(interner) + 1, interner |-> Append(interner, s)]
        ELSE [sym |-> n, interner |-> interner]

\* Interner::resolve
resolve(interner, sym) ==
    IF sym \in 1..Len(interner) THEN Some(interner[sym]) ELSE None

\* Token::display(interner).to_string()
Token_display(tok, interner) == TokenKind_to_string(tok.kind)

\* Token::to_string_sym
to_string_sym(tok, interner) == get_or_intern(interner, Token_display(tok, interner))

\* Cursor: the token stream, the number of tokens consumed, and whether the cursor
\* has been asked for a token past the end of the stream.
Cursor_new(toks) == [tokens |-> toks, pos |-> 0, saw_end |-> FALSE]

\* The cursor after a look at the token skip places ahead.
Cursor_peeked(cursor, skip) ==
    [cursor EXCEPT !.saw_end = @ \/ cursor.pos + 1 + skip > Len(cursor.tokens)]

\* The cursor after consuming one token.
Cursor_advanced(cursor) == [cursor EXCEPT !.pos = @ + 1]

\* Cursor::peek
Cursor_peek(cursor, skip) ==
    IF cursor.pos + 1 + skip <= Len(cursor.tokens)
    THEN Some(cursor.tokens[cursor.pos + 1 + skip])
    ELSE None

\* Cursor::next
Cursor_next(cursor) ==
    LET tk == Cursor_peek(cursor, 0)
    IN  [tok |-> tk,
         cursor |-> IF is_some(tk) THEN Cursor_advanced(cursor)
                    ELSE Cursor_peeked(cursor, 0)]

\* Cursor::next_if
Cursor_next_if(cursor, kind) ==
    LET tk == Cursor_peek(cursor, 0)
    IN  IF is_some(tk) /\ unwrap(tk).kind = kind
        THEN [tok |-> tk, cursor |-> Cursor_advanced(cursor)]
        ELSE [tok |-> None, cursor |-> Cursor_peeked(cursor, 0)]

\* Cursor::expect
Cursor_expect(cursor, kind, routine, interner) ==
    LET tk == Cursor_peek(cursor, 0)
    IN  IF is_none(tk) THEN [res |-> Err(AbruptEnd), cursor |-> Cursor_peeked(cursor, 0)]
        ELSE IF unwrap(tk).kind = kind
        THEN [res |-> Ok(unwrap(tk)), cursor |-> Cursor_advanced(cursor)]
        ELSE [res |-> Err(ParseError_expected(<<TokenKind_to_string(kind)>>,
                                              Token_display(unwrap(tk), interner),
                                              unwrap(tk).pos, routine)),
              cursor |-> cursor]

\* Cursor::peek_semicolon: <<inserted, token>>
Cursor_peek_semicolon(cursor, allow_newline) ==
    LET tk == Cursor_peek(cursor, 0)
    IN  IF is_none(tk) THEN <<TRUE, None>>
        ELSE IF unwrap(tk).kind \in {Punctuator("Semicolon"), Punctuator("CloseBlock")}
        THEN <<TRUE, tk>>
        ELSE IF allow_newline /\ unwrap(tk).kind = LineTerminator
        THEN <<TRUE, tk>>
        ELSE <<FALSE, tk>>

\* Cursor::expect_semicolon
Cursor_expect_semicolon(cursor, allow_newline, routine, interner) ==
    LET ps == Cursor_peek_semicolon(cursor, allow_newline)
    IN  IF ps[1]
        THEN IF is_some(ps[2])
                  /\ unwrap(ps[2]).kind \in {Punctuator("Semicolon"), LineTerminator}
             THEN [res |-> Ok(TRUE), cursor |-> Cursor_advanced(cursor)]
             ELSE [res |-> Ok(TRUE), cursor |-> Cursor_peeked(cursor, 0)]
        ELSE [res |-> Err(ParseError_expected(<<TokenKind_to_string(Punctuator("Semicolon"))>>,
                                              Token_display(unwrap(ps[2]), interner),
                                              unwrap(ps[2]).pos, routine)),
              cursor |-> cursor]

(***************************************************************************)
(* The mutable arguments of TokenParser::parse and its ParseResult.        *)
(***************************************************************************)
\* cx: the cursor, the interner, and the log of the sub-productions called so far.
Context(cursor, interner) == [cursor |-> cursor, interner |-> interner, calls |-> <<>>]
WithCursor(cx, cursor) == [cx EXCEPT !.cursor = cursor]
WithInterner(cx, interner) == [cx EXCEPT !.interner = interner]
Called(cx, prod, self) ==
    [cx EXCEPT !.calls = Append(@, [production |-> prod, self |-> self,
                                    pos |-> cx.cursor.pos])]

\* Ok(node), Err(error) and a panic, each with the arguments as parse left them.
POk(v, cx) == [tag |-> "Ok", val |-> v, cx |-> cx]
PErr(e, cx) == [tag |-> "Err", val |-> e, cx |-> cx]
PPanic(msg, cx) == [tag |-> "Panic", val |-> msg, cx |-> cx]

\* The `?` operator: the result is not Ok, so the function returns it at once.
Returns(r) == r.tag # "Ok"

\* cursor.expect(kind, routine, interner) as a ParseResult.
Expect_result(cx, e) == [tag |-> e.res.tag, val |-> e.res.val, cx |-> WithCursor(cx, e.cursor)]
Expect(cx, kind, routine) ==
    Expect_result(cx, Cursor_expect(cx.cursor, kind, routine, cx.interner))

(***************************************************************************)
(* The productions this fragment calls: AssignmentExpression,              *)
(* FormalParameters and FunctionBody.                                      *)
(***************************************************************************)
\* AST nodes.
Node_Local(name) == [type |-> "Local", data |-> name]
Node_Const(n) == [type |-> "Const", data |-> n]
Node_Object(elements) == [type |-> "Object", elements |-> elements]
Node_StatementList(list) == [type |-> "StatementList", list |-> list]
Node_FunctionDecl(name, params, body) ==
    [type |-> "FunctionDecl", name |-> name, params |-> params, body |-> body]
Node_var_decl(list) == [type |-> "VarDecl", list |-> list]
Node_Empty == [type |-> "Empty"]
FormalParameter(name) == [name |-> name, init |-> None, is_rest_param |-> FALSE]

\* node::PropertyDefinition variants.
PropertyDefinition_Property(name, val) == [type |-> "Property", name |-> name, value |-> val]
PropertyDefinition_MethodDefinition(kind, name, node) ==
    [type |-> "MethodDefinition", kind |-> kind, name |-> name, node |-> node]
PropertyDefinition_SpreadObject(node) == [type |-> "SpreadObject", node |-> node]

\* The grammar parameters a parser struct is created with.
Params2(allow_yield, allow_await) ==
    [allow_yield |-> allow_yield, allow_await |-> allow_await]
Params3(allow_in, allow_yield, allow_await) ==
    [allow_in |-> allow_in, allow_yield |-> allow_yield, allow_await |-> allow_await]

\* AssignmentExpression::parse, on the primary expressions of one token: an identifier
\* reference or a numeric literal.  n is what cursor.next() returned.
AssignmentExpression_primary(cx, n) ==
    IF is_none(n.tok) THEN PErr(AbruptEnd, WithCursor(cx, n.cursor))
    ELSE IF unwrap(n.tok).kind.type = "Identifier"
    THEN POk(Node_Local(unwrap(n.tok).kind.data), WithCursor(cx, n.cursor))
    ELSE IF unwrap(n.tok).kind.type = "NumericLiteral"
    THEN POk(Node_Const(unwrap(n.tok).kind.data), WithCursor(cx, n.cursor))
    ELSE PErr(ParseError_unexpected(Token_display(unwrap(n.tok), cx.interner),
                                    unwrap(n.tok).pos, None),
              WithCursor(cx, n.cursor))

AssignmentExpression_parse(self, cx) ==
    AssignmentExpression_primary(Called(cx, "AssignmentExpression", self),
                                 Cursor_next(cx.cursor))

\* FormalParameters::parse: identifiers separated by commas, up to (not including) `)`.
RECURSIVE FormalParameters_loop(_, _)

FormalParameters_after(params, cx, pk) ==
    IF is_none(pk) THEN PErr(AbruptEnd, WithCursor(cx, Cursor_peeked(cx.cursor, 0)))
    ELSE IF unwrap(pk).kind = Punctuator("CloseParen") THEN POk(params, cx)
    ELSE IF Returns(Expect(cx, Punctuator("Comma"), "parameter list"))
    THEN Expect(cx, Punctuator("Comma"), "parameter list")
    ELSE FormalParameters_loop(params, Expect(cx, Punctuator("Comma"), "parameter list").cx)

FormalParameters_param(params, cx, n) ==
    IF is_none(n.tok) THEN PErr(AbruptEnd, WithCursor(cx, n.cursor))
    ELSE IF unwrap(n.tok).kind.type # "Identifier"
    THEN PErr(ParseError_expected(<<"identifier">>,
                                  Token_display(unwrap(n.tok), cx.interner),
                                  unwrap(n.tok).pos, "formal parameter"),
              WithCursor(cx, n.cursor))
    ELSE FormalParameters_after(Append(params, FormalParameter(unwrap(n.tok).kind.data)),
                                WithCursor(cx, n.cursor), Cursor_peek(n.cursor, 0))

FormalParameters_loop(params, cx) ==
    FormalParameters_param(params, cx, Cursor_next(cx.cursor))

FormalParameters_parse(self, cx) ==
    IF is_none(Cursor_peek(cx.cursor, 0))
    THEN PErr(AbruptEnd,
              WithCursor(Called(cx, "FormalParameters", self), Cursor_peeked(cx.cursor, 0)))
    ELSE IF unwrap(Cursor_peek(cx.cursor, 0)).kind = Punctuator("CloseParen")
    THEN POk(<<>>, Called(cx, "FormalParameters", self))
    ELSE FormalParameters_loop(<<>>, Called(cx, "FormalParameters", self))

\* FunctionBody::parse: a statement list of empty statements, up to (not including) `}`.
RECURSIVE FunctionBody_loop(_, _)

FunctionBody_statement(list, cx, pk) ==
    IF is_none(pk) THEN POk(list, WithCursor(cx, Cursor_peeked(cx.cursor, 0)))
    ELSE IF unwrap(pk).kind = Punctuator("CloseBlock") THEN POk(list, cx)
    ELSE IF unwrap(pk).kind = Punctuator("Semicolon")
    THEN FunctionBody_loop(Append(list, Node_Empty), WithCursor(cx, Cursor_advanced(cx.cursor)))
    ELSE PErr(ParseError_unexpected(Token_display(unwrap(pk), cx.interner),
                                    unwrap(pk).pos, None),
              WithCursor(cx, Cursor_advanced(cx.cursor)))

FunctionBody_loop(list, cx) == FunctionBody_statement(list, cx, Cursor_peek(cx.cursor, 0))

FunctionBody_parse(self, cx) == FunctionBody_loop(<<>>, Called(cx, "FunctionBody", self))

(***************************************************************************)
(* syntax/parser/expression/primary/object_initializer/mod.rs              *)
(* Each production is written as the sequence of its steps: a step takes   *)
(* what the step before it returned and either returns (an error, by `?`)  *)
(* or goes on to the next step.                                            *)
(***************************************************************************)
\* ObjectLiteral::new
ObjectLiteral_new(allow_yield, allow_await) == Params2(allow_yield, allow_await)

\* PropertyDefinition::new
PropertyDefinition_new(allow_yield, allow_await) == Params2(allow_yield, allow_await)

\* MethodDefinition::new
MethodDefinition_new(allow_yield, allow_await, identifier) ==
    [allow_yield |-> allow_yield, allow_await |-> allow_await, identifier |-> identifier]

\* Initializer::new
Initializer_new(allow_in, allow_yield, allow_await) ==
    Params3(allow_in, allow_yield, allow_await)

\* The arity checks with the setter check relaxed to "at most one parameter".
MethodDefinition_accessor_arity_at_most_one(idn, prop_name, params, first_param, cx) ==
    IF idn = "get"
    THEN IF params # <<>>
         THEN PErr(ParseError_unexpected(Token_display(first_param, cx.interner),
                                         first_param.pos,
                                         Some("getter functions must have no arguments")),
                   cx)
         ELSE POk(<<"Get", prop_name, params>>, cx)
    ELSE IF Len(params) > 1
         THEN PErr(ParseError_unexpected(Token_display(first_param, cx.interner),
                                         first_param.pos,
                                         Some("setter functions must have one argument")),
                   cx)
         ELSE POk(<<"Set", prop_name, params>>, cx)

\* MethodDefinition::parse, `get` / `set` arm: the arity checks, made once the parameters
\* and the closing `)` are parsed.  Ok(<<kind, name, params>>) or the error.
MethodDefinition_accessor_arity(idn, prop_name, params, first_param, cx) ==
    IF idn = "get"
    THEN IF params # <<>>
         THEN PErr(ParseError_unexpected(Token_display(first_param, cx.interner),
                                         first_param.pos,
                                         Some("getter functions must have no arguments")),
                   cx)
         ELSE POk(<<"Get", prop_name, params>>, cx)
    ELSE IF Len(params) # 1
         THEN PErr(ParseError_unexpected(Token_display(first_param, cx.interner),
                                         first_param.pos,
                                         Some("setter functions must have one argument")),
                   cx)
         ELSE POk(<<"Set", prop_name, params>>, cx)

\* ... cursor.expect(Punctuator::CloseParen, "method definition", interner)?
MethodDefinition_accessor_close(idn, prop_name, params, first_param, e) ==
    IF Returns(e) THEN e
    ELSE MethodDefinition_accessor_arity(idn, prop_name, params, first_param, e.cx)

\* The accessor arm with first_param read after the parameter list instead of before it.
MethodDefinition_accessor_params_late(idn, prop_name, first_param, ps) ==
    IF Returns(ps) THEN ps
    ELSE MethodDefinition_accessor_close(
             idn, prop_name, ps.val, unwrap(Cursor_peek(ps.cx.cursor, 0)),
             Expect(ps.cx, Punctuator("CloseParen"), "method definition"))

\* ... FormalParameters::new(false, false).parse(cursor, interner)?
MethodDefinition_accessor_params(idn, prop_name, first_param, ps) ==
    IF Returns(ps) THEN ps
    ELSE MethodDefinition_accessor_close(
             idn, prop_name, ps.val, first_param,
             Expect(ps.cx, Punctuator("CloseParen"), "method definition"))

\* ... cursor.expect(Punctuator::OpenParen, "property method definition", interner)?
\* ... let first_param = cursor.peek(0).expect("current token disappeared").clone()
MethodDefinition_accessor_open(idn, prop_name, e) ==
    IF Returns(e) THEN e
    ELSE IF is_none(Cursor_peek(e.cx.cursor, 0))
    THEN PPanic("current token disappeared",
                WithCursor(e.cx, Cursor_peeked(e.cx.cursor, 0)))
    ELSE MethodDefinition_accessor_params(
             idn, prop_name, unwrap(Cursor_peek(e.cx.cursor, 0)),
             FormalParameters_parse(Params2(FALSE, FALSE), e.cx))

\* ... the property name is interned
MethodDefinition_accessor_name(idn, pn, cx) ==
    MethodDefinition_accessor_open(
        idn, pn.sym,
        Expect(WithInterner(cx, pn.interner), Punctuator("OpenParen"),
               "property method definition"))

\* MethodDefinition::parse, `get` / `set` arm: cursor.next() is the property name.
MethodDefinition_accessor(idn, cx, n) ==
    IF is_none(n.tok) THEN PErr(AbruptEnd, WithCursor(cx, n.cursor))
    ELSE MethodDefinition_accessor_name(idn, to_string_sym(unwrap(n.tok), cx.interner),
                                        WithCursor(cx, n.cursor))

\* MethodDefinition::parse, catch-all arm: an ordinary method, `(` already consumed.
MethodDefinition_ordinary_close(self, params, e) ==
    IF Returns(e) THEN e ELSE POk(<<"Ordinary", self.identifier, params>>, e.cx)

MethodDefinition_ordinary_params(self, ps) ==
    IF Returns(ps) THEN ps
    ELSE MethodDefinition_ordinary_close(
             self, ps.val, Expect(ps.cx, Punctuator("CloseParen"), "method definition"))

\* The match with the parameters of an ordinary method parsed under the enclosing
\* AllowYield/AllowAwait.
MethodDefinition_match_inheriting(self, idn, cx) ==
    IF is_none(idn) THEN PPanic("identifier string disappeared", cx)
    ELSE IF unwrap(idn) \in {"get", "set"}
    THEN MethodDefinition_accessor(unwrap(idn), cx, Cursor_next(cx.cursor))
    ELSE MethodDefinition_ordinary_params(
             self, FormalParameters_parse(Params2(self.allow_yield, self.allow_await), cx))

\* MethodDefinition::parse, the match on the resolved identifier.
MethodDefinition_match(self, idn, cx) ==
    IF is_none(idn) THEN PPanic("identifier string disappeared", cx)
    ELSE IF unwrap(idn) \in {"get", "set"}
    THEN MethodDefinition_accessor(unwrap(idn), cx, Cursor_next(cx.cursor))
    ELSE MethodDefinition_ordinary_params(
             self, FormalParameters_parse(Params2(FALSE, FALSE), cx))

\* The node with the method's name given to the function as well.
MethodDefinition_node_named(head, body, e) ==
    IF Returns(e) THEN e
    ELSE POk(PropertyDefinition_MethodDefinition(
                 head[1], head[2], Node_FunctionDecl(Some(head[2]), head[3], body)),
             e.cx)

\* MethodDefinition::parse, after the match: `{`, the function body, `}`, the node.
MethodDefinition_node(head, body, e) ==
    IF Returns(e) THEN e
    ELSE POk(PropertyDefinition_MethodDefinition(
                 head[1], head[2], Node_FunctionDecl(None, head[3], body)),
             e.cx)

MethodDefinition_body(head, b) ==
    IF Returns(b) THEN b
    ELSE MethodDefinition_node(
             head, Node_StatementList(b.val),
             Expect(b.cx, Punctuator("CloseBlock"), "property method definition"))

MethodDefinition_block(head, e) ==
    IF Returns(e) THEN e
    ELSE MethodDefinition_body(head, FunctionBody_parse(Params2(FALSE, FALSE), e.cx))

MethodDefinition_tail(h) ==
    IF Returns(h) THEN h
    ELSE MethodDefinition_block(
             h.val, Expect(h.cx, Punctuator("OpenBlock"), "property method definition"))

\* MethodDefinition::parse
MethodDefinition_parse(self, cx) ==
    MethodDefinition_tail(
        MethodDefinition_match(self, resolve(cx.interner, self.identifier), cx))

\* PropertyDefinition::parse, the test that sends a definition to MethodDefinition:
\* `(` follows (and is consumed), or the name is the symbol of "get", or of "set".
\* The || is short-circuit, so the interner is touched only as far as it is evaluated.
PropertyDefinition_is_set(prop_name, cx, s) ==
    [is |-> prop_name = s.sym, cx |-> WithInterner(cx, s.interner)]

PropertyDefinition_is_get(prop_name, cx, g) ==
    IF prop_name = g.sym THEN [is |-> TRUE, cx |-> WithInterner(cx, g.interner)]
    ELSE PropertyDefinition_is_set(prop_name, cx, get_or_intern(g.interner, "set"))

PropertyDefinition_is_paren(prop_name, cx, op) ==
    IF is_some(op.tok) THEN [is |-> TRUE, cx |-> WithCursor(cx, op.cursor)]
    ELSE PropertyDefinition_is_get(prop_name, WithCursor(cx, op.cursor),
                                   get_or_intern(cx.interner, "get"))

\* The fall-through that consumes the token it reports.
PropertyDefinition_fallthrough_consuming(cx, pk) ==
    IF is_none(pk) THEN PErr(AbruptEnd, WithCursor(cx, Cursor_peeked(cx.cursor, 0)))
    ELSE PErr(ParseError_general("expected property definition", unwrap(pk).pos),
              WithCursor(cx, Cursor_advanced(cx.cursor)))

\* PropertyDefinition::parse, the fall-through: no `:`, no `(`, not `get`, not `set`.
PropertyDefinition_fallthrough(cx, pk) ==
    IF is_none(pk) THEN PErr(AbruptEnd, WithCursor(cx, Cursor_peeked(cx.cursor, 0)))
    ELSE PErr(ParseError_general("expected property definition", unwrap(pk).pos), cx)

\* ... the dispatch to MethodDefinition
PropertyDefinition_method(self, prop_name, m) ==
    IF m.is
    THEN MethodDefinition_parse(
             MethodDefinition_new(self.allow_yield, self.allow_await, prop_name), m.cx)
    ELSE PropertyDefinition_fallthrough(m.cx, Cursor_peek(m.cx.cursor, 0))

\* ... Ok(node::PropertyDefinition::Property(prop_name, val))
PropertyDefinition_property(prop_name, r) ==
    IF Returns(r) THEN r ELSE POk(PropertyDefinition_Property(prop_name, r.val), r.cx)

\* ... if cursor.next_if(Punctuator::Colon).is_some()
PropertyDefinition_colon(self, prop_name, cx, col) ==
    IF is_some(col.tok)
    THEN PropertyDefinition_property(
             prop_name,
             AssignmentExpression_parse(
                 Params3(TRUE, self.allow_yield, self.allow_await),
                 WithCursor(cx, col.cursor)))
    ELSE PropertyDefinition_method(
             self, prop_name,
             PropertyDefinition_is_paren(
                 prop_name, WithCursor(cx, col.cursor),
                 Cursor_next_if(col.cursor, Punctuator("OpenParen"))))

\* ... the tentative property name is interned
PropertyDefinition_interned(self, pn, cx) ==
    PropertyDefinition_colon(self, pn.sym, WithInterner(cx, pn.interner),
                             Cursor_next_if(cx.cursor, Punctuator("Colon")))

\* ... let prop_name = cursor.next().map(|tk| tk.to_string_sym(interner)).ok_or(AbruptEnd)?
PropertyDefinition_name(self, cx, n) ==
    IF is_none(n.tok) THEN PErr(AbruptEnd, WithCursor(cx, n.cursor))
    ELSE PropertyDefinition_interned(self, to_string_sym(unwrap(n.tok), cx.interner),
                                     WithCursor(cx, n.cursor))

\* ... Ok(node::PropertyDefinition::SpreadObject(node))
PropertyDefinition_spread_object(r) ==
    IF Returns(r) THEN r ELSE POk(PropertyDefinition_SpreadObject(r.val), r.cx)

\* ... if cursor.next_if(Punctuator::Spread).is_some()
PropertyDefinition_spread(self, cx, sp) ==
    IF is_some(sp.tok)
    THEN PropertyDefinition_spread_object(
             AssignmentExpression_parse(
                 Params3(TRUE, self.allow_yield, self.allow_await),
                 WithCursor(cx, sp.cursor)))
    ELSE PropertyDefinition_name(self, WithCursor(cx, sp.cursor), Cursor_next(sp.cursor))

\* PropertyDefinition::parse
PropertyDefinition_parse(self, cx) ==
    PropertyDefinition_spread(self, Called(cx, "PropertyDefinition", self),
                              Cursor_next_if(cx.cursor, Punctuator("Spread")))

\* The separator error reported without consuming the offending token, at the token
\* after it.
ObjectLiteral_separator_error_peeked(cx, next_token) ==
    IF is_none(next_token.tok)
    THEN [ctl |-> "return", cx |-> WithCursor(cx, next_token.cursor), err |-> AbruptEnd]
    ELSE [ctl |-> "return", cx |-> WithCursor(cx, next_token.cursor),
          err |-> ParseError_expected(
                      <<TokenKind_to_string(Punctuator("Comma")),
                        TokenKind_to_string(Punctuator("CloseBlock"))>>,
                      Token_display(unwrap(next_token.tok), cx.interner),
                      unwrap(next_token.tok).pos + 1, "object literal")]

\* ObjectLiteral::parse, the end of one turn of the loop, after an element was pushed:
\* break on `}`, go round again on `,`, otherwise return the error.
ObjectLiteral_separator_error(cx, next_token) ==
    IF is_none(next_token.tok)
    THEN [ctl |-> "return", cx |-> WithCursor(cx, next_token.cursor), err |-> AbruptEnd]
    ELSE [ctl |-> "return", cx |-> WithCursor(cx, next_token.cursor),
          err |-> ParseError_expected(
                      <<TokenKind_to_string(Punctuator("Comma")),
                        TokenKind_to_string(Punctuator("CloseBlock"))>>,
                      Token_display(unwrap(next_token.tok), cx.interner),
                      unwrap(next_token.tok).pos, "object literal")]

\* The `,` after an element seen but left in the stream.
ObjectLiteral_separator_comma_peeked(cx, cm) ==
    IF is_some(cm.tok)
    THEN [ctl |-> "continue", cx |-> WithCursor(cx, Cursor_peeked(cx.cursor, 0))]
    ELSE ObjectLiteral_separator_error(cx, Cursor_next(cm.cursor))

ObjectLiteral_separator_comma(cx, cm) ==
    IF is_some(cm.tok) THEN [ctl |-> "continue", cx |-> WithCursor(cx, cm.cursor)]
    ELSE ObjectLiteral_separator_error(cx, Cursor_next(cm.cursor))

ObjectLiteral_separator_close(cx, cb) ==
    IF is_some(cb.tok) THEN [ctl |-> "break", cx |-> WithCursor(cx, cb.cursor)]
    ELSE ObjectLiteral_separator_comma(cx, Cursor_next_if(cb.cursor, Punctuator("Comma")))

\* ObjectLiteral::parse, the loop.
RECURSIVE ObjectLiteral_loop(_, _, _)

ObjectLiteral_loop_end(self, elements, sep) ==
    CASE sep.ctl = "break" -> POk(Node_Object(elements), sep.cx)
      [] sep.ctl = "continue" -> ObjectLiteral_loop(self, elements, sep.cx)
      [] sep.ctl = "return" -> PErr(sep.err, sep.cx)

\* The loop with each element pushed to the front of the list.
ObjectLiteral_loop_push_front(self, elements, pd) ==
    IF Returns(pd) THEN pd
    ELSE ObjectLiteral_loop_end(
             self, <<pd.val>> \o elements,
             ObjectLiteral_separator_close(
                 pd.cx, Cursor_next_if(pd.cx.cursor, Punctuator("CloseBlock"))))

ObjectLiteral_loop_push(self, elements, pd) ==
    IF Returns(pd) THEN pd
    ELSE ObjectLiteral_loop_end(
             self, Append(elements, pd.val),
             ObjectLiteral_separator_close(
                 pd.cx, Cursor_next_if(pd.cx.cursor, Punctuator("CloseBlock"))))

ObjectLiteral_loop_start(self, elements, cx, cb) ==
    IF is_some(cb.tok) THEN POk(Node_Object(elements), WithCursor(cx, cb.cursor))
    ELSE ObjectLiteral_loop_push(
             self, elements,
             PropertyDefinition_parse(
                 PropertyDefinition_new(self.allow_yield, self.allow_await),
                 WithCursor(cx, cb.cursor)))

ObjectLiteral_loop(self, elements, cx) ==
    ObjectLiteral_loop_start(self, elements, cx,
                             Cursor_next_if(cx.cursor, Punctuator("CloseBlock")))

\* ObjectLiteral::parse
ObjectLiteral_parse(self, cx) == ObjectLiteral_loop(self, <<>>, cx)

\* Initializer::parse
Initializer_parse(self, cx) ==
    IF Returns(Expect(Called(cx, "Initializer", self), Punctuator("Assign"), "initializer"))
    THEN Expect(Called(cx, "Initializer", self), Punctuator("Assign"), "initializer")
    ELSE AssignmentExpression_parse(
             Params3(self.allow_in, self.allow_yield, self.allow_await),
             Expect(Called(cx, "Initializer", self), Punctuator("Assign"),
                    "initializer").cx)

(***************************************************************************)
(* syntax/parser/statement/variable.rs                                     *)
(***************************************************************************)
\* VariableStatement::new
VariableStatement_new(allow_yield, allow_await) == Params2(allow_yield, allow_await)

\* VariableDeclarationList::new
VariableDeclarationList_new(allow_in, allow_yield, allow_await) ==
    Params3(allow_in, allow_yield, allow_await)

\* VariableDeclaration::new
VariableDeclaration_new(allow_in, allow_yield, allow_await) ==
    Params3(allow_in, allow_yield, allow_await)

\* A binding name that may also be a numeric literal.
VariableDeclaration_name_or_number(cx, n) ==
    IF is_none(n.tok) THEN PErr(AbruptEnd, WithCursor(cx, n.cursor))
    ELSE IF unwrap(n.tok).kind.type \in {"Identifier", "NumericLiteral"}
    THEN POk(unwrap(n.tok).kind.data, WithCursor(cx, n.cursor))
    ELSE PErr(ParseError_Expected(<<Identifier("identifier")>>, unwrap(n.tok),
                                  "variable declaration"),
              WithCursor(cx, n.cursor))

\* VariableDeclaration::parse, the binding name: the token cursor.next() returned,
\* which must be an Identifier.
VariableDeclaration_name(cx, n) ==
    IF is_none(n.tok) THEN PErr(AbruptEnd, WithCursor(cx, n.cursor))
    ELSE IF unwrap(n.tok).kind.type = "Identifier"
    THEN POk(unwrap(n.tok).kind.data, WithCursor(cx, n.cursor))
    ELSE PErr(ParseError_Expected(<<Identifier("identifier")>>, unwrap(n.tok),
                                  "variable declaration"),
              WithCursor(cx, n.cursor))

\* ... Ok(<<name, Some(init)>>)
VariableDeclaration_initialized(name, init) ==
    IF Returns(init) THEN init ELSE POk(<<name, Some(init.val)>>, init.cx)

\* The match with the initializer created with AllowIn = true, as a declaration outside
\* the head of a for loop has it.
VariableDeclaration_initializer_allow_in(self, name, cx, pk) ==
    IF is_some(pk) /\ unwrap(pk).kind = Punctuator("Assign")
    THEN VariableDeclaration_initialized(
             name,
             Initializer_parse(
                 Initializer_new(TRUE, self.allow_yield, self.allow_await), cx))
    ELSE POk(<<name, None>>, WithCursor(cx, Cursor_peeked(cx.cursor, 0)))

\* ... match cursor.peek(0): `=` starts an initializer, anything else ends the declaration
VariableDeclaration_initializer(self, name, cx, pk) ==
    IF is_some(pk) /\ unwrap(pk).kind = Punctuator("Assign")
    THEN VariableDeclaration_initialized(
             name,
             Initializer_parse(
                 Initializer_new(self.allow_in, self.allow_yield, self.allow_await), cx))
    ELSE POk(<<name, None>>, WithCursor(cx, Cursor_peeked(cx.cursor, 0)))

VariableDeclaration_named(self, nm) ==
    IF Returns(nm) THEN nm
    ELSE VariableDeclaration_initializer(self, nm.val, nm.cx, Cursor_peek(nm.cx.cursor, 0))

\* VariableDeclaration::parse: <<name, Option<Node>>>
VariableDeclaration_parse(self, cx) ==
    VariableDeclaration_named(
        self, VariableDeclaration_name(Called(cx, "VariableDeclaration", self),
                                       Cursor_next(cx.cursor)))

\* The separator error with `;` and `,` as the expected tokens.
VariableDeclarationList_separator_error_comma(cx, next_token) ==
    IF is_none(next_token.tok)
    THEN [ctl |-> "return", cx |-> WithCursor(cx, next_token.cursor), err |-> AbruptEnd]
    ELSE [ctl |-> "return", cx |-> WithCursor(cx, next_token.cursor),
          err |-> ParseError_Expected(<<Punctuator("Semicolon"), Punctuator("Comma")>>,
                                      unwrap(next_token.tok), "lexical declaration")]

\* VariableDeclarationList::parse, the catch-all arm of the match: the error, with the
\* token cursor.next() returned as the found token.
VariableDeclarationList_separator_error(cx, next_token) ==
    IF is_none(next_token.tok)
    THEN [ctl |-> "return", cx |-> WithCursor(cx, next_token.cursor), err |-> AbruptEnd]
    ELSE [ctl |-> "return", cx |-> WithCursor(cx, next_token.cursor),
          err |-> ParseError_Expected(<<Punctuator("Semicolon"), LineTerminator>>,
                                      unwrap(next_token.tok), "lexical declaration")]

\* The match that leaves every token other than `,` to the caller of the list.
VariableDeclarationList_match_lenient(cx, ps) ==
    IF is_some(ps[2]) /\ unwrap(ps[2]).kind = Punctuator("Comma")
    THEN [ctl |-> "continue", cx |-> WithCursor(cx, Cursor_advanced(cx.cursor))]
    ELSE [ctl |-> "break", cx |-> WithCursor(cx, Cursor_peeked(cx.cursor, 0))]

\* VariableDeclarationList::parse, the match on peek_semicolon(false) after a
\* declaration: break, go round again after consuming the `,`, or return the error.
VariableDeclarationList_match(cx, ps) ==
    IF ps[1] THEN [ctl |-> "break", cx |-> WithCursor(cx, Cursor_peeked(cx.cursor, 0))]
    ELSE IF is_some(ps[2]) /\ unwrap(ps[2]).kind = Punctuator("Comma")
    THEN [ctl |-> "continue", cx |-> WithCursor(cx, Cursor_advanced(cx.cursor))]
    ELSE VariableDeclarationList_separator_error(cx, Cursor_next(cx.cursor))

\* VariableDeclarationList::parse, the loop.
RECURSIVE VariableDeclarationList_loop(_, _, _)

VariableDeclarationList_loop_end(self, list, sep) ==
    CASE sep.ctl = "break" -> POk(Node_var_decl(list), sep.cx)
      [] sep.ctl = "continue" -> VariableDeclarationList_loop(self, list, sep.cx)
      [] sep.ctl = "return" -> PErr(sep.err, sep.cx)

\* The loop with each declaration pushed to the front of the list.
VariableDeclarationList_loop_push_front(self, list, d) ==
    IF Returns(d) THEN d
    ELSE VariableDeclarationList_loop_end(self, <<d.val>> \o list,
                                          VariableDeclarationList_match(
                                              d.cx, Cursor_peek_semicolon(d.cx.cursor, FALSE)))

VariableDeclarationList_loop_push(self, list, d) ==
    IF Returns(d) THEN d
    ELSE VariableDeclarationList_loop_end(self, Append(list, d.val),
                                          VariableDeclarationList_match(
                                              d.cx, Cursor_peek_semicolon(d.cx.cursor, FALSE)))

VariableDeclarationList_loop(self, list, cx) ==
    VariableDeclarationList_loop_push(
        self, list,
        VariableDeclaration_parse(
            VariableDeclaration_new(self.allow_in, self.allow_yield, self.allow_await), cx))

\* VariableDeclarationList::parse
VariableDeclarationList_parse(self, cx) ==
    VariableDeclarationList_loop(self, <<>>, Called(cx, "VariableDeclarationList", self))

\* VariableStatement::parse
\* ... cursor.expect_semicolon(false, "variable statement")?; Ok(decl_list)
VariableStatement_semicolon(decl_list, s) ==
    IF Returns(s) THEN s ELSE POk(decl_list, s.cx)

VariableStatement_decl_list(decl_list) ==
    IF Returns(decl_list) THEN decl_list
    ELSE VariableStatement_semicolon(
             decl_list.val,
             Expect_result(decl_list.cx,
                           Cursor_expect_semicolon(decl_list.cx.cursor, FALSE,
                                                   "variable statement",
                                                   decl_list.cx.interner)))

VariableStatement_var(self, e) ==
    IF Returns(e) THEN e
    ELSE VariableStatement_decl_list(
             VariableDeclarationList_parse(
                 VariableDeclarationList_new(TRUE, self.allow_yield, self.allow_await),
                 e.cx))

VariableStatement_parse(self, cx) ==
    VariableStatement_var(self, Expect(cx, KeywordToken("Var"), "variable statement"))

(***************************************************************************)
(* Running a production on a token stream                                  *)
(***************************************************************************)
\* The parse of the stream asked for a token past its end: a longer stream may parse
\* differently.  (A parse that never asked returns the same on every longer stream.)
\* The grammar parameters do not steer the cursor, so one parse decides it.
ReadToEnd(prod, toks) ==
    IF prod = "ObjectLiteral"
    THEN ObjectLiteral_parse(ObjectLiteral_new(FALSE, FALSE),
                             Context(Cursor_new(toks), <<>>)).cx.cursor.saw_end
    ELSE IF prod = "VariableStatement"
    THEN VariableStatement_parse(VariableStatement_new(FALSE, FALSE),
                                 Context(Cursor_new(toks), <<>>)).cx.cursor.saw_end
    ELSE VariableDeclarationList_parse(VariableDeclarationList_new(FALSE, FALSE, FALSE),
                                       Context(Cursor_new(toks), <<>>)).cx.cursor.saw_end

\* No token is lexed yet and the production is not yet created; with no production
\* to run ("none") the parser stays idle.
ParserInit(prod) ==
    /\ start_production = prod
    /\ self_allow_yield = FALSE
    /\ self_allow_await = FALSE
    /\ tokens = <<>>
    /\ pc = IF prod = "none" THEN "idle" ELSE "lexing"
    /\ result = [tag |-> "Pending"]

\* The lexer hands the next token of the source text to the stream.
Lex ==
    /\ pc = "lexing"
    /\ Len(tokens) < MaxTokens
    /\ ReadToEnd(start_production, tokens)
    /\ \E kind \in TokenKinds(start_production) :
           tokens' = Append(tokens, Token(kind, Len(tokens) + 1))
    /\ UNCHANGED <<start_production, self_allow_yield, self_allow_await, pc, result>>
    /\ UNCHANGED <<kwVars, propVars>>

\* ObjectLiteral::new(allow_yield, allow_await).parse(cursor, interner), the opening `{`
\* consumed by the caller, on the stream lexed so far (which ends here).
ParseObjectLiteral ==
    /\ pc = "lexing"
    /\ start_production = "ObjectLiteral"
    /\ \E ay, aa \in BOOLEAN :
           /\ self_allow_yield' = ay
           /\ self_allow_await' = aa
           /\ result' = ObjectLiteral_parse(ObjectLiteral_new(ay, aa),
                                            Context(Cursor_new(tokens), <<>>))
    /\ pc' = "done"
    /\ UNCHANGED <<start_production, tokens, kwVars, propVars>>

\* VariableStatement::new(allow_yield, allow_await).parse(cursor) on the stream lexed so far.
ParseVariableStatement ==
    /\ pc = "lexing"
    /\ start_production = "VariableStatement"
    /\ \E ay, aa \in BOOLEAN :
           /\ self_allow_yield' = ay
           /\ self_allow_await' = aa
           /\ result' = VariableStatement_parse(VariableStatement_new(ay, aa),
                                                Context(Cursor_new(tokens), <<>>))
    /\ pc' = "done"
    /\ UNCHANGED <<start_production, tokens, kwVars, propVars>>

\* VariableDeclarationList::new(allow_in, allow_yield, allow_await).parse(cursor), as a
\* statement production other than VariableStatement calls it, on the stream lexed so far.
ParseVariableDeclarationList ==
    /\ pc = "lexing"
    /\ start_production = "VariableDeclarationList"
    /\ \E ai, ay, aa \in BOOLEAN :
           /\ self_allow_yield' = ay
           /\ self_allow_await' = aa
           /\ result' = VariableDeclarationList_parse(
                             VariableDeclarationList_new(ai, ay, aa),
                             Context(Cursor_new(tokens), <<>>))
    /\ pc' = "done"
    /\ UNCHANGED <<start_production, tokens, kwVars, propVars>>

(***************************************************************************)
(* Specifications                                                          *)
(***************************************************************************)
\* The variables of the components a specification does not exercise stay idle.
PropIdle == prop = Property_new /\ prop_src = "idle" /\ prop_call = None

InitKeyword == KwInit /\ PropIdle /\ ParserInit("none")

KwNext == ChooseKeyword \/ RenderKeyword \/ ChooseString \/ ParseKeyword \/ RenderParsed

SpecKeyword == InitKeyword /\ [][KwNext]_vars

InitProperty == KwInit /\ PropInit /\ ParserInit("none")

PropNext ==
    \/ SetConfigurable \/ SetEnumerable \/ SetWritable
    \/ SetValue \/ SetGet \/ SetSet \/ FromValue

SpecProperty == InitProperty /\ [][PropNext]_vars

InitObjectLiteral == KwInit /\ PropIdle /\ ParserInit("ObjectLiteral")

ObjectLiteralNext == Lex \/ ParseObjectLiteral

SpecObjectLiteral == InitObjectLiteral /\ [][ObjectLiteralNext]_vars

InitVariableStatement == KwInit /\ PropIdle /\ ParserInit("VariableStatement")

VariableStatementNext == Lex \/ ParseVariableStatement

SpecVariableStatement == InitVariableStatement /\ [][VariableStatementNext]_vars

\* Every production with AllowIn among the parameters it threads: the object literal,
\* the variable statement, and the declaration list created on its own.
InitParser ==
    /\ KwInit
    /\ PropIdle
    /\ \E prod \in {"ObjectLiteral", "VariableStatement", "VariableDeclarationList"} :
           ParserInit(prod)

ParserNext ==
    \/ Lex
    \/ ParseObjectLiteral
    \/ ParseVariableStatement
    \/ ParseVariableDeclarationList

SpecParser == InitParser /\ [][ParserNext]_vars

(***************************************************************************)
(* Properties of the reserved-word catalogue                               *)
(***************************************************************************)
KwParsed == kw_pc \in {"parsed", "rendered"}

\* C1: Keyword round-trip.  For each of the 36 variants k, from_str(k.to_string())
\* is Ok(k); and for each of the 36 reserved words s, from_str(s) succeeds and the
\* parsed keyword renders back to exactly s.
C1_KeywordRoundTrip ==
    /\ (KwParsed /\ kw_key # "none") => kw_res = Ok(kw_key)
    /\ (KwParsed /\ kw_str \in ReservedWords) => (is_ok(kw_res) /\ kw_res.val \in Keyword)
    /\ (kw_pc = "rendered" /\ kw_str \in ReservedWords) => kw_out = kw_str
    /\ (kw_pc = "have_str" /\ kw_key # "none") => kw_str \in ReservedWords

C1_Witness ==
    /\ kw_pc = "rendered"
    /\ kw_key = "Extends"
    /\ kw_res = Ok("Extends")
    /\ kw_out = "extends"

\* C2: from_str fails with KeywordError on every string that is not exactly one of
\* the 36 lowercase reserved words (case variants, prefixes, padded strings, "").
C2_NonKeywordRejected ==
    (KwParsed /\ kw_str \notin ReservedWords) => kw_res = Err(KeywordError)

C2_Witness ==
    /\ kw_pc = "parsed"
    /\ kw_str = "Var"
    /\ kw_res = Err(KeywordError)

(***************************************************************************)
(* Properties of the property descriptor                                   *)
(***************************************************************************)
\* C4: No mixed descriptor.  A Property reachable from new()/default() by the builder
\* calls, or returned by from_value, is never both an accessor and a data descriptor.
C4_NoMixedDescriptor ==
    ~(is_accessor_descriptor(prop) /\ is_data_descriptor(prop))

(***************************************************************************)
(* Properties of the object-literal productions                            *)
(***************************************************************************)
KindOf(i) == tokens[i].kind
IsIdentifier(tok) == tok.kind.type = "Identifier"
IsGetOrSet(tok) == tok.kind \in {Identifier("get"), Identifier("set")}
ResultErr(e) == result.tag = "Err" /\ result.val = e
Consumed == result.cx.cursor.pos

GetterHint == "getter functions must have no arguments"
SetterHint == "setter functions must have one argument"

\* C3: Accessor arity.  In every AST the object-literal parser returns as Ok, each
\* MethodDefinition of kind Get has zero formal parameters and each MethodDefinition
\* of kind Set has exactly one, whatever the token stream was.
C3_AccessorArity ==
    (pc = "done" /\ result.tag = "Ok") =>
        \A i \in 1..Len(result.val.elements) :
            result.val.elements[i].type = "MethodDefinition" =>
                /\ result.val.elements[i].kind = "Get" =>
                       Len(result.val.elements[i].node.params) = 0
                /\ result.val.elements[i].kind = "Set" =>
                       Len(result.val.elements[i].node.params) = 1

\* `set a ( a ) { } }` is parsed: a setter with its one parameter is in the AST.
C3_Witness ==
    /\ pc = "done"
    /\ result.tag = "Ok"
    /\ \E i \in 1..Len(result.val.elements) :
           /\ result.val.elements[i].type = "MethodDefinition"
           /\ result.val.elements[i].kind = "Set"
           /\ result.val.elements[i].node.params = <<FormalParameter("a")>>

\* C5: Errors are values, never exceptions.  For every finite token stream, also one
\* that ends inside the object literal (such as right after the `(` of an accessor),
\* parse returns Ok(node) or Err(ParseError), the end of input being reported as
\* AbruptEnd, and never panics.
C5_ErrorsAreValues ==
    pc = "done" =>
        result.tag \in {"Ok", "Err"}

\* What follows the name of an ordinary method without parameters or statements,
\* the last one of its object literal: `( ) { } }`.
OrdinaryMethodTail ==
    <<Punctuator("OpenParen"), Punctuator("CloseParen"), Punctuator("OpenBlock"),
      Punctuator("CloseBlock"), Punctuator("CloseBlock")>>

\* C6: Get/set disambiguation.  With `get` or `set` as the tentative property name,
\* the definition is an accessor only if a property name and then `(` follow; in
\* every other case get/set is itself the property name: `get : v` is
\* Property(get, v), and `get ( ) { }` is MethodDefinition(Ordinary, get, ...), so
\* that a stream which is the beginning of `get ( ) { } }` fails only for having ended.
C6_GetSetDisambiguation ==
    (pc = "done" /\ Len(tokens) >= 2 /\ IsGetOrSet(tokens[1])) =>
        /\ (KindOf(2) = Punctuator("Colon") /\ result.tag = "Ok") =>
               /\ result.val.elements[1].type = "Property"
               /\ resolve(result.cx.interner, result.val.elements[1].name)
                      = Some(KindOf(1).data)
        /\ (/\ Len(tokens) <= 6
            /\ \A i \in 2..Len(tokens) : KindOf(i) = OrdinaryMethodTail[i - 1]) =>
               IF Len(tokens) < 6 THEN ResultErr(AbruptEnd)
               ELSE /\ result.tag = "Ok"
                    /\ Len(result.val.elements) = 1
                    /\ result.val.elements[1].type = "MethodDefinition"
                    /\ result.val.elements[1].kind = "Ordinary"
                    /\ resolve(result.cx.interner, result.val.elements[1].name)
                           = Some(KindOf(1).data)
        /\ (/\ result.tag = "Ok"
            /\ Len(result.val.elements) >= 1
            /\ result.val.elements[1].type = "MethodDefinition"
            /\ result.val.elements[1].kind \in {"Get", "Set"}) =>
               /\ Len(tokens) >= 3
               /\ KindOf(2) # Punctuator("OpenParen")
               /\ KindOf(3) = Punctuator("OpenParen")

\* The number of formal parameters of the list whose first identifier is token i and
\* which ends with `)`; -1 if the tokens from i on are no such list.
RECURSIVE ParameterCountFrom(_, _)
ParameterCountFrom(toks, i) ==
    IF i + 1 > Len(toks) \/ ~IsIdentifier(toks[i]) THEN -1
    ELSE IF toks[i + 1].kind = Punctuator("CloseParen") THEN 1
    ELSE IF toks[i + 1].kind # Punctuator("Comma") THEN -1
    ELSE IF ParameterCountFrom(toks, i + 2) < 0 THEN -1
    ELSE ParameterCountFrom(toks, i + 2) + 1

\* ... of the list that follows the `(` at token i - 1.
ParameterCount(toks, i) ==
    IF i > Len(toks) THEN -1
    ELSE IF toks[i].kind = Punctuator("CloseParen") THEN 0
    ELSE ParameterCountFrom(toks, i)

\* The index of the `)` that closes a list of n parameters opened by the `(` at token p.
CloseParenOf(p, n) == IF n = 0 THEN p + 1 ELSE p + 2 * n

\* The stream starts with an accessor head: get/set, a property name, `(`.
AccessorHead ==
    /\ Len(tokens) >= 3
    /\ IsGetOrSet(tokens[1])
    /\ KindOf(2) \notin {Punctuator("Colon"), Punctuator("OpenParen")}
    /\ KindOf(3) = Punctuator("OpenParen")

ArityError(hint, tok) ==
    ParseError_unexpected(TokenKind_to_string(tok.kind), tok.pos, Some(hint))

\* C7: Accessor arity errors.  A `get` accessor with a non-empty parameter list fails
\* with Unexpected and the hint "getter functions must have no arguments"; a `set`
\* accessor with zero, or two or more, parameters fails with Unexpected and the hint
\* "setter functions must have one argument".  The reported token and position are
\* those of the first token after the `(`, and the error is raised only once the
\* parameters and the closing `)` have been parsed.
C7_AccessorArityErrors ==
    pc = "done" =>
        /\ (AccessorHead /\ ParameterCount(tokens, 4) >= 0) =>
               /\ (KindOf(1) = Identifier("get") /\ ParameterCount(tokens, 4) > 0) =>
                      /\ ResultErr(ArityError(GetterHint, tokens[4]))
                      /\ Consumed = CloseParenOf(3, ParameterCount(tokens, 4))
               /\ (KindOf(1) = Identifier("set") /\ ParameterCount(tokens, 4) # 1) =>
                      /\ ResultErr(ArityError(SetterHint, tokens[4]))
                      /\ Consumed = CloseParenOf(3, ParameterCount(tokens, 4))
        /\ (/\ result.tag = "Err"
            /\ result.val.type = "Unexpected"
            /\ result.val.message \in {Some(GetterHint), Some(SetterHint)}) =>
               \E p \in 1..Len(tokens) :
                   /\ KindOf(p) = Punctuator("OpenParen")
                   /\ ParameterCount(tokens, p + 1) >= 0
                   /\ Consumed = CloseParenOf(p, ParameterCount(tokens, p + 1))
                   /\ result.val.found = TokenKind_to_string(KindOf(p + 1))
                   /\ result.val.pos = tokens[p + 1].pos
                   /\ IF result.val.message = Some(GetterHint)
                      THEN ParameterCount(tokens, p + 1) > 0
                      ELSE ParameterCount(tokens, p + 1) # 1

\* `set a ( a , a )`: two parameters and the `)` are parsed, then the setter is refused
\* at the first parameter.
C7_Witness ==
    /\ pc = "done"
    /\ AccessorHead
    /\ KindOf(1) = Identifier("set")
    /\ ParameterCount(tokens, 4) = 2
    /\ ResultErr(ArityError(SetterHint, tokens[4]))
    /\ Consumed = 7

\* Tokens 1..n are property definitions `name : value`, separated by commas.
RECURSIVE SimpleProperties(_, _)
SimpleProperties(toks, n) ==
    /\ n >= 3
    /\ IsIdentifier(toks[n - 2])
    /\ toks[n - 1].kind = Punctuator("Colon")
    /\ IsIdentifier(toks[n])
    /\ \/ n = 3
       \/ /\ n >= 7
          /\ toks[n - 3].kind = Punctuator("Comma")
          /\ SimpleProperties(toks, n - 4)

SeparatorError(tok) ==
    ParseError_expected(<<",", "}">>, TokenKind_to_string(tok.kind), tok.pos,
                        "object literal")

\* C8: Object-literal separator error.  After a property definition that parsed, a next
\* token that is neither `}` nor `,` makes ObjectLiteral parse fail with Expected:
\* expected is {",", "}"}, the context is "object literal", and the found token and
\* position are those of the offending token.  If the input has ended instead, parse
\* fails with AbruptEnd.
C8_SeparatorError ==
    pc = "done" =>
        /\ \A n \in 3..Len(tokens) :
               SimpleProperties(tokens, n) =>
                   IF n = Len(tokens) THEN ResultErr(AbruptEnd)
                   ELSE KindOf(n + 1) \notin {Punctuator("CloseBlock"), Punctuator("Comma")}
                            => (ResultErr(SeparatorError(tokens[n + 1])) /\ Consumed = n + 1)
        /\ (/\ result.tag = "Err"
            /\ result.val.type = "Expected"
            /\ result.val.context = "object literal") =>
               /\ Consumed >= 1
               /\ KindOf(Consumed) \notin {Punctuator("CloseBlock"), Punctuator("Comma")}
               /\ result.val = SeparatorError(tokens[Consumed])

\* `a : a , a : a (`: the second definition is followed by `(`.
C8_Witness ==
    /\ pc = "done"
    /\ Len(tokens) = 8
    /\ SimpleProperties(tokens, 7)
    /\ KindOf(8) = Punctuator("OpenParen")
    /\ ResultErr(SeparatorError(tokens[8]))

(***************************************************************************)
(* Properties of the variable-statement productions                        *)
(***************************************************************************)
IsInitializerValue(tok) == tok.kind.type \in {"Identifier", "NumericLiteral"}

\* Tokens i..j are variable declarations, with or without initializer, separated by commas.
RECURSIVE DeclarationList(_, _, _)
DeclarationList(toks, i, j) ==
    /\ i <= j
    /\ IsIdentifier(toks[i])
    /\ \/ i = j
       \/ /\ i + 2 = j
          /\ toks[i + 1].kind = Punctuator("Assign")
          /\ IsInitializerValue(toks[i + 2])
       \/ /\ i + 2 <= j
          /\ toks[i + 1].kind = Punctuator("Comma")
          /\ DeclarationList(toks, i + 2, j)
       \/ /\ i + 4 <= j
          /\ toks[i + 1].kind = Punctuator("Assign")
          /\ IsInitializerValue(toks[i + 2])
          /\ toks[i + 3].kind = Punctuator("Comma")
          /\ DeclarationList(toks, i + 4, j)

\* Token j follows the declarations of `var ...`, no semicolon is present or insertable
\* before it, and it is neither `,` nor the `=` of the last declaration's initializer.
OffendingSeparator(j) ==
    /\ j \in 3..Len(tokens)
    /\ KindOf(1) = KeywordToken("Var")
    /\ DeclarationList(tokens, 2, j - 1)
    /\ KindOf(j) \notin {Punctuator("Semicolon"), Punctuator("CloseBlock"), Punctuator("Comma")}
    /\ ~(KindOf(j) = Punctuator("Assign") /\ KindOf(j - 2) # Punctuator("Assign"))

\* C9, as the specification states it: the separator error of the variable list is an
\* Expected error whose expected set is { `;`, `,` } and whose found token is the
\* offending token.
C9_ExpectedSemicolonOrComma ==
    pc = "done" =>
        \A j \in 3..Len(tokens) :
            OffendingSeparator(j) =>
                /\ result.tag = "Err"
                /\ result.val.type = "Expected"
                /\ {result.val.expected[k] : k \in 1..Len(result.val.expected)}
                       = {Punctuator("Semicolon"), Punctuator("Comma")}
                /\ result.val.found = tokens[j]

\* C9: Variable-list separator error.  After a variable declaration, when
\* peek_semicolon reports that no semicolon is present or insertable and the next
\* token is not `,`, VariableDeclarationList parse consumes that token and fails with
\* an Expected error whose expected list is `;` and line terminator, whose context is
\* "lexical declaration" and whose found token is the offending token.
C9_SeparatorError ==
    pc = "done" =>
        \A j \in 3..Len(tokens) :
            OffendingSeparator(j) =>
                /\ ResultErr(ParseError_Expected(
                       <<Punctuator("Semicolon"), LineTerminator>>, tokens[j],
                       "lexical declaration"))
                /\ Consumed = j

\* `var a = 1 , a :` : the second declaration is followed by `:`.
C9_Witness ==
    /\ pc = "done"
    /\ Len(tokens) = 7
    /\ OffendingSeparator(7)
    /\ KindOf(3) = Punctuator("Assign")
    /\ KindOf(7) = Punctuator("Colon")
    /\ result.tag = "Err"
    /\ result.val.expected = <<Punctuator("Semicolon"), LineTerminator>>
    /\ result.val.found = tokens[7]

\* A declaration starts at token j: right after `var`, or after the `,` that follows
\* a list of declarations.
DeclarationStart(j) ==
    /\ Len(tokens) >= 1
    /\ KindOf(1) = KeywordToken("Var")
    /\ \/ j = 2
       \/ /\ j >= 4
          /\ KindOf(j - 1) = Punctuator("Comma")
          /\ DeclarationList(tokens, 2, j - 2)

\* The number of declarations that start before token j.
DeclarationsBefore(j) ==
    Cardinality({i \in 2..(j - 1) : KindOf(i) = Punctuator("Comma")})

\* C10: Variable declaration name.  VariableDeclaration parse consumes exactly one
\* token as the binding name.  A token that is not an Identifier makes it fail with
\* Expected{Identifier}, context "variable declaration", at that token (`var 1 = 2;`
\* fails at `1`; `var x, ;` fails at `;`: every `,` must be followed by a
\* declaration); if the input has ended it fails with AbruptEnd.
C10_DeclarationName ==
    pc = "done" =>
        \A j \in 2..(Len(tokens) + 1) :
            DeclarationStart(j) =>
                IF j > Len(tokens) THEN ResultErr(AbruptEnd)
                ELSE IF ~IsIdentifier(tokens[j])
                THEN /\ ResultErr(ParseError_Expected(<<Identifier("identifier")>>,
                                                      tokens[j], "variable declaration"))
                     /\ Consumed = j
                ELSE /\ Consumed >= j
                     /\ result.tag = "Ok" =>
                            result.val.list[DeclarationsBefore(j) + 1][1] = KindOf(j).data
                     /\ (j < Len(tokens) /\ KindOf(j + 1) = Punctuator("Assign")) =>
                            \E c \in 1..Len(result.cx.calls) :
                                /\ result.cx.calls[c].production = "AssignmentExpression"
                                /\ result.cx.calls[c].pos = j + 1

\* `var a , ;`: the `,` is followed by `;`, which is refused as a binding name.
C10_Witness ==
    /\ pc = "done"
    /\ Len(tokens) = 4
    /\ DeclarationStart(4)
    /\ KindOf(4) = Punctuator("Semicolon")
    /\ ResultErr(ParseError_Expected(<<Identifier("identifier")>>, tokens[4],
                                     "variable declaration"))

\* The value an initializer of one token parses to.
InitializerValue(tok) ==
    IF IsIdentifier(tok) THEN Node_Local(tok.kind.data) ELSE Node_Const(tok.kind.data)

\* The entries declared by tokens i..j, a DeclarationList: for each declaration its
\* name and its initializer, present exactly when `=` follows the name.
RECURSIVE DeclaredEntries(_, _, _)
DeclaredEntries(toks, i, j) ==
    IF i > j THEN <<>>
    ELSE IF i < j /\ toks[i + 1].kind = Punctuator("Assign")
    THEN <<<<toks[i].kind.data, Some(InitializerValue(toks[i + 2]))>>>>
             \o DeclaredEntries(toks, i + 4, j)
    ELSE <<<<toks[i].kind.data, None>>>> \o DeclaredEntries(toks, i + 2, j)

\* The stream is `var` d1 `,` ... `,` dn `;`.
VariableStatementTokens ==
    /\ Len(tokens) >= 3
    /\ KindOf(1) = KeywordToken("Var")
    /\ DeclarationList(tokens, 2, Len(tokens) - 1)
    /\ KindOf(Len(tokens)) = Punctuator("Semicolon")

\* C11: Variable statement result.  For every token stream `var` d1 `,` ... `,` dn `;`
\* with n >= 1, each di an identifier optionally followed by `=` and an assignment
\* expression, VariableStatement parse returns a VarDecl with exactly n entries in
\* source order, entry i holding di's name and an initializer that is present if and
\* only if the identifier was directly followed by `=`; the list is never empty.
C11_VariableStatementResult ==
    pc = "done" =>
        /\ VariableStatementTokens =>
               /\ result.tag = "Ok"
               /\ result.val = Node_var_decl(DeclaredEntries(tokens, 2, Len(tokens) - 1))
               /\ Consumed = Len(tokens)
        /\ result.tag = "Ok" => (result.val.type = "VarDecl" /\ Len(result.val.list) >= 1)

\* `var a = 1 , get ;`: two entries, the first with an initializer, the second without.
C11_Witness ==
    /\ pc = "done"
    /\ VariableStatementTokens
    /\ result.tag = "Ok"
    /\ result.val.list = <<<<"a", Some(Node_Const("1"))>>, <<"get", None>>>>

\* Tokens i.. up to the end of the stream are the rest of an object literal: property
\* definitions `name : value` and `... value`, separated by commas, an optional
\* trailing comma, and the closing `}` as the last token.
RECURSIVE IsElementList(_, _)
IsElementList(toks, i) ==
    /\ i <= Len(toks)
    /\ \/ toks[i].kind = Punctuator("CloseBlock") /\ i = Len(toks)
       \/ /\ toks[i].kind = Punctuator("Spread")
          /\ i + 2 <= Len(toks)
          /\ IsIdentifier(toks[i + 1])
          /\ \/ toks[i + 2].kind = Punctuator("CloseBlock") /\ i + 2 = Len(toks)
             \/ toks[i + 2].kind = Punctuator("Comma") /\ IsElementList(toks, i + 3)
       \/ /\ IsIdentifier(toks[i])
          /\ i + 3 <= Len(toks)
          /\ toks[i + 1].kind = Punctuator("Colon")
          /\ IsIdentifier(toks[i + 2])
          /\ \/ toks[i + 3].kind = Punctuator("CloseBlock") /\ i + 3 = Len(toks)
             \/ toks[i + 3].kind = Punctuator("Comma") /\ IsElementList(toks, i + 4)

\* The elements such a list defines, in source order, property names as strings.
RECURSIVE ListedElements(_, _)
ListedElements(toks, i) ==
    IF toks[i].kind = Punctuator("CloseBlock") THEN <<>>
    ELSE IF toks[i].kind = Punctuator("Comma") THEN ListedElements(toks, i + 1)
    ELSE IF toks[i].kind = Punctuator("Spread")
    THEN <<PropertyDefinition_SpreadObject(Node_Local(toks[i + 1].kind.data))>>
             \o ListedElements(toks, i + 2)
    ELSE <<PropertyDefinition_Property(toks[i].kind.data,
                                       Node_Local(toks[i + 2].kind.data))>>
             \o ListedElements(toks, i + 3)

\* The elements of the Object the parser returned, property names resolved to strings.
ResolvedElements ==
    [i \in 1..Len(result.val.elements) |->
        IF result.val.elements[i].type = "SpreadObject" THEN result.val.elements[i]
        ELSE [result.val.elements[i] EXCEPT
                 !.name = unwrap(resolve(result.cx.interner, @))]]

\* C12: Object literal result.  Entered after the opening `{`, ObjectLiteral parse
\* returns Object with one element per property definition, in source order: an
\* immediate `}` gives an empty Object, one trailing `,` before `}` is accepted and adds
\* no element, `name : value` gives Property(name, value), `... expr` gives
\* SpreadObject(expr).  The closing `}` is consumed and nothing after it is.
C12_ObjectLiteralResult ==
    pc = "done" =>
        /\ IsElementList(tokens, 1) =>
               /\ result.tag = "Ok"
               /\ result.val.type = "Object"
               /\ ResolvedElements = ListedElements(tokens, 1)
        /\ result.tag = "Ok" =>
               /\ Consumed >= 1
               /\ KindOf(Consumed) = Punctuator("CloseBlock")
               /\ Consumed = Len(tokens)
               /\ ~result.cx.cursor.saw_end

\* `a : get , ... a , }`: a property, a spread and a trailing comma.
C12_Witness ==
    /\ pc = "done"
    /\ Len(tokens) = 8
    /\ IsElementList(tokens, 1)
    /\ result.tag = "Ok"
    /\ ResolvedElements = <<PropertyDefinition_Property("a", Node_Local("get")),
                            PropertyDefinition_SpreadObject(Node_Local("a"))>>

\* A property definition starts at token j: at the start of the literal, or after the
\* `,` that follows property definitions `name : value`.
DefinitionStart(j) ==
    \/ j = 1
    \/ /\ j >= 5
       /\ KindOf(j - 1) = Punctuator("Comma")
       /\ SimpleProperties(tokens, j - 2)

\* Token j is read as a tentative property name other than get and set.
PlainName(j) ==
    /\ KindOf(j) \notin {Punctuator("CloseBlock"), Punctuator("Spread")}
    /\ ~IsGetOrSet(tokens[j])

\* C13: Property-definition fallthrough.  A tentative property name that is neither
\* `get` nor `set` and is followed by neither `:` nor `(` makes PropertyDefinition parse
\* fail with General("expected property definition") at the token after the name,
\* which is not consumed (AbruptEnd if there is none).  So the shorthand `{ a }` or
\* `{ a, b }` is rejected, and no AST holds an IdentifierReference property.
C13_Fallthrough ==
    pc = "done" =>
        /\ \A j \in 1..Len(tokens) :
               (DefinitionStart(j) /\ PlainName(j)) =>
                   IF j = Len(tokens) THEN ResultErr(AbruptEnd)
                   ELSE KindOf(j + 1) \notin {Punctuator("Colon"), Punctuator("OpenParen")}
                            => /\ ResultErr(ParseError_general("expected property definition",
                                                               tokens[j + 1].pos))
                               /\ Consumed = j
        /\ (result.tag = "Err" /\ result.val.type = "General") =>
               /\ Consumed \in 1..(Len(tokens) - 1)
               /\ result.val = ParseError_general("expected property definition",
                                                  tokens[Consumed + 1].pos)
        /\ result.tag = "Ok" =>
               \A i \in 1..Len(result.val.elements) :
                   result.val.elements[i].type
                       \in {"Property", "MethodDefinition", "SpreadObject"}

\* `a : a , a }`: the shorthand `a` is refused at the `}` that follows it.
C13_Witness ==
    /\ pc = "done"
    /\ Len(tokens) = 6
    /\ DefinitionStart(5)
    /\ KindOf(5) = Identifier("a")
    /\ KindOf(6) = Punctuator("CloseBlock")
    /\ ResultErr(ParseError_general("expected property definition", tokens[6].pos))
    /\ Consumed = 5

\* What the first sub-production of the production under test returns on the stream:
\* the first PropertyDefinition of the object literal, or the VariableDeclarationList
\* entered after `var`.
FirstSubProduction ==
    IF start_production = "ObjectLiteral"
    THEN PropertyDefinition_parse(
             PropertyDefinition_new(self_allow_yield, self_allow_await),
             Context(Cursor_new(tokens), <<>>))
    ELSE VariableDeclarationList_parse(
             VariableDeclarationList_new(TRUE, self_allow_yield, self_allow_await),
             Context(Cursor_advanced(Cursor_new(tokens)), <<>>))

\* The first sub-production is entered: the literal does not close at once, and the
\* statement starts with `var`.
FirstSubProductionEntered ==
    /\ Len(tokens) >= 1
    /\ IF start_production = "ObjectLiteral"
       THEN KindOf(1) # Punctuator("CloseBlock")
       ELSE KindOf(1) = KeywordToken("Var")

\* C14: First-error property.  On every malformed input the productions return
\* exactly one error, the first one a sub-production or cursor primitive raised,
\* unchanged; nothing is consumed after an error, no partial AST comes with an error,
\* and the error's position lies at or before the first token not consumed.
C14_FirstError ==
    (pc = "done" /\ result.tag # "Ok") =>
        /\ result.tag = "Err"
        /\ result.val.type \in {"AbruptEnd", "Expected", "Unexpected", "General"}
        /\ result.val.type # "AbruptEnd" => result.val.pos <= Consumed + 1
        /\ (FirstSubProductionEntered /\ FirstSubProduction.tag # "Ok") =>
               /\ result.val = FirstSubProduction.val
               /\ Consumed = FirstSubProduction.cx.cursor.pos

(***************************************************************************)
(* Further properties of the property descriptor                           *)
(***************************************************************************)
Present(field) == field # <<>>
OptionalBooleans == {None, Some(TRUE), Some(FALSE)}

\* C15: Descriptor classification.  For every Property record, is_accessor_descriptor
\* is true iff get or set is present, is_data_descriptor is true iff value or writable
\* is present, and is_generic_descriptor is true iff none of the four is present.
\* Property::new() and Property::default() are generic; configurable and enumerable
\* never affect the classification.
C15_Classification ==
    /\ is_accessor_descriptor(prop) <=> (Present(prop.get) \/ Present(prop.set))
    /\ is_data_descriptor(prop) <=> (Present(prop.value) \/ Present(prop.writable))
    /\ is_generic_descriptor(prop) <=>
           ~(Present(prop.get) \/ Present(prop.set)
                 \/ Present(prop.value) \/ Present(prop.writable))
    /\ prop_src \in {"new", "default"} => is_generic_descriptor(prop)
    /\ \A c, e \in OptionalBooleans :
           /\ is_accessor_descriptor([prop EXCEPT !.configurable = c, !.enumerable = e])
                  = is_accessor_descriptor(prop)
           /\ is_data_descriptor([prop EXCEPT !.configurable = c, !.enumerable = e])
                  = is_data_descriptor(prop)
           /\ is_generic_descriptor([prop EXCEPT !.configurable = c, !.enumerable = e])
                  = is_generic_descriptor(prop)

\* Property::new().enumerable(true).writable(false): writable alone makes it a data
\* descriptor.
C15_Witness ==
    /\ prop_src = "builder"
    /\ prop.writable = Some(FALSE)
    /\ prop.enumerable = Some(TRUE)
    /\ ~Present(prop.value) /\ ~Present(prop.get) /\ ~Present(prop.set)
    /\ is_data_descriptor(prop)
    /\ ~is_accessor_descriptor(prop)
    /\ ~is_generic_descriptor(prop)

\* C16: Property::is_none() is true if and only if all six fields of the record
\* (configurable, enumerable, writable, value, get, set) are None; a record built as
\* Property::new().value(v) is not reported as empty.
C16_IsNoneAllSix ==
    Property_is_none(prop) <=> \A f \in FieldNames : ~Present(prop[f])

(***************************************************************************)
(* Further properties of the object-literal productions                    *)
(***************************************************************************)
\* The formal parameters of a list of n identifiers whose first one is token i.
ListedParameters(toks, i, n) ==
    [k \in 1..n |-> FormalParameter(toks[i + 2 * (k - 1)].kind.data)]

\* The stream starts with a plain name, `(` and a well-formed parameter list.
OrdinaryMethodHead ==
    /\ Len(tokens) >= 3
    /\ PlainName(1)
    /\ KindOf(2) = Punctuator("OpenParen")
    /\ ParameterCount(tokens, 3) >= 0

\* The index of the `)` of that parameter list.
OrdinaryMethodCloseParen == CloseParenOf(2, ParameterCount(tokens, 3))

\* C17: Ordinary method definition.  A tentative property name that is neither `get`
\* nor `set` and is directly followed by `(`: the dispatch consumes the `(`, and
\* MethodDefinition parses the parameters and requires `)`, `{`, a function body and
\* `}` in that order; it returns MethodDefinition(Ordinary, name,
\* FunctionDecl(None, params, StatementList(body))), the name being the tentative
\* name symbol itself.  For every method kind the wrapped FunctionDecl has no name.
C17_OrdinaryMethod ==
    pc = "done" =>
        /\ (OrdinaryMethodHead /\ Len(tokens) > OrdinaryMethodCloseParen) =>
               IF KindOf(OrdinaryMethodCloseParen + 1) # Punctuator("OpenBlock")
               THEN /\ ResultErr(ParseError_expected(
                           <<"{">>,
                           TokenKind_to_string(KindOf(OrdinaryMethodCloseParen + 1)),
                           tokens[OrdinaryMethodCloseParen + 1].pos,
                           "property method definition"))
                    /\ Consumed = OrdinaryMethodCloseParen
               ELSE (/\ Len(tokens) = OrdinaryMethodCloseParen + 3
                     /\ KindOf(OrdinaryMethodCloseParen + 2) = Punctuator("CloseBlock")
                     /\ KindOf(OrdinaryMethodCloseParen + 3) = Punctuator("CloseBlock")) =>
                        /\ result.tag = "Ok"
                        /\ Len(result.val.elements) = 1
                        /\ result.val.elements[1].type = "MethodDefinition"
                        /\ result.val.elements[1].kind = "Ordinary"
                        /\ resolve(result.cx.interner, result.val.elements[1].name)
                               = Some(TokenKind_to_string(KindOf(1)))
                        /\ result.val.elements[1].node
                               = Node_FunctionDecl(
                                     None,
                                     ListedParameters(tokens, 3, ParameterCount(tokens, 3)),
                                     Node_StatementList(<<>>))
        /\ result.tag = "Ok" =>
               \A i \in 1..Len(result.val.elements) :
                   result.val.elements[i].type = "MethodDefinition" =>
                       /\ result.val.elements[i].node.type = "FunctionDecl"
                       /\ result.val.elements[i].node.name = None

\* `a ( get ) { } }`: an ordinary method named a with the one parameter get.
C17_Witness ==
    /\ pc = "done"
    /\ OrdinaryMethodHead
    /\ Len(tokens) = 7
    /\ result.tag = "Ok"
    /\ result.val.elements[1].kind = "Ordinary"
    /\ resolve(result.cx.interner, result.val.elements[1].name) = Some("a")
    /\ result.val.elements[1].node
           = Node_FunctionDecl(None, <<FormalParameter("get")>>, Node_StatementList(<<>>))

\* The sub-productions called during the parse, in call order.
Calls == result.cx.calls
CallsOf(prod) == {c \in 1..Len(Calls) : Calls[c].production = prod}

\* C18: Function-body parameters are not inherited.  Whatever the enclosing
\* AllowYield/AllowAwait, MethodDefinition parses the formal parameters and the
\* function body of a get, set or ordinary method with AllowYield = false and
\* AllowAwait = false, whereas property values and spread arguments are parsed with
\* the enclosing AllowYield/AllowAwait unchanged.
C18_FlagsNotInherited ==
    pc = "done" =>
        /\ \A c \in CallsOf("FormalParameters") \cup CallsOf("FunctionBody") :
               Calls[c].self = [allow_yield |-> FALSE, allow_await |-> FALSE]
        /\ \A c \in CallsOf("AssignmentExpression") :
               /\ Calls[c].self.allow_yield = self_allow_yield
               /\ Calls[c].self.allow_await = self_allow_await
        /\ (AccessorHead /\ Len(tokens) >= 4) =>
               \E c \in CallsOf("FormalParameters") : Calls[c].pos = 3
        /\ OrdinaryMethodHead =>
               \E c \in CallsOf("FormalParameters") : Calls[c].pos = 2
        /\ (Len(tokens) >= 3 /\ PlainName(1) /\ KindOf(2) = Punctuator("Colon")) =>
               \E c \in CallsOf("AssignmentExpression") : Calls[c].pos = 2
        /\ (Len(tokens) >= 2 /\ KindOf(1) = Punctuator("Spread")) =>
               \E c \in CallsOf("AssignmentExpression") : Calls[c].pos = 1

\* With AllowYield and AllowAwait both set on the literal: a spread argument parsed
\* with both set, then the parameters and the body of a method parsed with neither.
C18_Witness ==
    /\ pc = "done"
    /\ self_allow_yield /\ self_allow_await
    /\ Len(tokens) >= 1
    /\ KindOf(1) = Punctuator("Spread")
    /\ \E c \in CallsOf("AssignmentExpression") :
           Calls[c].self = [allow_in |-> TRUE, allow_yield |-> TRUE, allow_await |-> TRUE]
    /\ \E c \in CallsOf("FormalParameters") :
           Calls[c].self = [allow_yield |-> FALSE, allow_await |-> FALSE]
    /\ \E c \in CallsOf("FunctionBody") :
           Calls[c].self = [allow_yield |-> FALSE, allow_await |-> FALSE]


(***************************************************************************)
(* Properties of the grammar parameters threaded through the productions   *)
(***************************************************************************)
\* The call of the declaration list, the first sub-production logged when the start
\* production is the list and the only one of its name when it is the statement.
ListCalls == CallsOf("VariableDeclarationList")
ListSelf == Calls[CHOOSE c \in ListCalls : TRUE].self

\* The position the declaration list starts at: after `var` in a statement.
ListStart == IF start_production = "VariableStatement" THEN 1 ELSE 0

\* C19: AllowIn threading.  VariableDeclarationList passes the AllowIn/AllowYield/
\* AllowAwait it was constructed with, unchanged, to every VariableDeclaration of the
\* list, each VariableDeclaration passes them unchanged to its Initializer, and the
\* Initializer requires `=` and then parses an AssignmentExpression with exactly those
\* flags; VariableStatement always starts the list with AllowIn = true, and the values
\* of object-literal properties are always parsed with AllowIn = true.
C19_AllowInThreading ==
    pc = "done" =>
        /\ start_production = "ObjectLiteral" =>
               /\ ListCalls = {}
               /\ \A c \in CallsOf("AssignmentExpression") : Calls[c].self.allow_in
        /\ (start_production = "VariableStatement" /\ ListCalls # {}) =>
               ListSelf = [allow_in |-> TRUE, allow_yield |-> self_allow_yield,
                           allow_await |-> self_allow_await]
        /\ start_production = "VariableStatement" =>
               (ListCalls # {} <=> (Len(tokens) >= 1 /\ KindOf(1) = KeywordToken("Var")))
        /\ start_production = "VariableDeclarationList" =>
               /\ ListCalls = {1}
               /\ ListSelf.allow_yield = self_allow_yield
               /\ ListSelf.allow_await = self_allow_await
        /\ start_production # "ObjectLiteral" =>
               /\ Cardinality(ListCalls) <= 1
               /\ \A c \in 1..Len(Calls) : Calls[c].self = ListSelf
               /\ ListCalls # {} =>
                      \E c \in CallsOf("VariableDeclaration") : Calls[c].pos = ListStart
               /\ \A c \in CallsOf("VariableDeclaration") :
                      (/\ Len(tokens) >= Calls[c].pos + 2
                       /\ IsIdentifier(tokens[Calls[c].pos + 1])
                       /\ KindOf(Calls[c].pos + 2) = Punctuator("Assign"))
                          => /\ c + 2 <= Len(Calls)
                             /\ Calls[c + 1].production = "Initializer"
                             /\ Calls[c + 1].pos = Calls[c].pos + 1
               /\ \A c \in CallsOf("Initializer") :
                      /\ KindOf(Calls[c].pos + 1) = Punctuator("Assign")
                      /\ c + 1 <= Len(Calls)
                      /\ Calls[c + 1].production = "AssignmentExpression"
                      /\ Calls[c + 1].pos = Calls[c].pos + 1
               /\ \A c \in CallsOf("AssignmentExpression") :
                      c > 1 /\ Calls[c - 1].production = "Initializer"

\* A declaration list created with AllowIn = false and AllowYield = true whose second
\* declaration has an initializer: the AssignmentExpression of that initializer is
\* parsed with AllowIn = false and AllowYield = true.
C19_Witness ==
    /\ pc = "done"
    /\ start_production = "VariableDeclarationList"
    /\ result.tag = "Ok"
    /\ ListSelf = [allow_in |-> FALSE, allow_yield |-> TRUE, allow_await |-> FALSE]
    /\ Cardinality(CallsOf("VariableDeclaration")) = 2
    /\ \E c \in CallsOf("AssignmentExpression") :
           /\ Calls[c].pos = 4
           /\ Calls[c].self = [allow_in |-> FALSE, allow_yield |-> TRUE,
                               allow_await |-> FALSE]


(***************************************************************************)
(* Properties of the semicolon after the declaration list                  *)
(***************************************************************************)
\* What the declaration list of the statement returns, entered after `var`.
StatementList ==
    VariableDeclarationList_parse(
        VariableDeclarationList_new(TRUE, self_allow_yield, self_allow_await),
        Context(Cursor_advanced(Cursor_new(tokens)), <<>>))

\* The statement is past its `var` and the declaration list has parsed.
StatementListParsed ==
    /\ pc = "done"
    /\ Len(tokens) >= 1
    /\ KindOf(1) = KeywordToken("Var")
    /\ StatementList.tag = "Ok"

\* The tokens the list consumed.
ListEnd == StatementList.cx.cursor.pos

\* C20: Semicolon decision consistency.  VariableDeclarationList returns Ok only when
\* peek_semicolon(false) reported a semicolon present or insertable, and it does not
\* consume that token; VariableStatement then calls expect_semicolon(false) at the same
\* cursor position, so whenever the declaration list of a VariableStatement parses, the
\* semicolon demand succeeds too and VariableStatement returns the VarDecl of the list.
C20_SemicolonConsistency ==
    /\ StatementListParsed =>
           /\ Cursor_peek_semicolon(StatementList.cx.cursor, FALSE)[1]
           /\ ListEnd >= 2
           /\ IsInitializerValue(tokens[ListEnd])
           /\ ListEnd < Len(tokens) =>
                  KindOf(ListEnd + 1) \in {Punctuator("Semicolon"), Punctuator("CloseBlock")}
           /\ result.tag = "Ok"
           /\ result.val = StatementList.val
           /\ result.val.type = "VarDecl"
           /\ Consumed = IF ListEnd < Len(tokens) /\ KindOf(ListEnd + 1) = Punctuator("Semicolon")
                         THEN ListEnd + 1
                         ELSE ListEnd
    /\ (pc = "done" /\ result.tag = "Ok") => StatementListParsed
    /\ (pc = "done" /\ result.tag = "Err" /\ result.val.type = "Expected"
            /\ result.val.context = "variable statement") =>
           /\ Consumed = 0
           /\ result.val.pos = 1
           /\ KindOf(1) # KeywordToken("Var")

\* `var a = 1 , get }`: the list stops before the `}`, which stands for the semicolon
\* and stays in the stream for the enclosing block.
C20_Witness ==
    /\ StatementListParsed
    /\ Len(StatementList.val.list) = 2
    /\ ListEnd = 6
    /\ Len(tokens) = 7
    /\ KindOf(7) = Punctuator("CloseBlock")
    /\ result.tag = "Ok"
    /\ Consumed = 6


(***************************************************************************)
(* Termination of the list loops                                           *)
(***************************************************************************)
\* The production each turn of the loop under test starts with, and the turns of the
\* loop: the calls of that production, in order.
LoopElement ==
    IF start_production = "ObjectLiteral" THEN "PropertyDefinition" ELSE "VariableDeclaration"
Turns == CallsOf(LoopElement)

\* Turn d is the turn after turn c.
NextTurn(c, d) == c < d /\ \A e \in Turns : ~(c < e /\ e < d)

\* C21: Termination of the list loops.  Every turn of the ObjectLiteral loop and of the
\* VariableDeclarationList loop either returns (success or error) or consumes at least
\* one token: a turn that is followed by another has consumed its element and the `,`
\* after it, so the turns start at strictly increasing positions, there are at most as
\* many turns as tokens (and one), and the parse ends within the stream.
C21_LoopsTerminate ==
    pc = "done" =>
        /\ \A c, d \in Turns :
               NextTurn(c, d) =>
                   /\ Calls[d].pos >= Calls[c].pos + 2
                   /\ KindOf(Calls[d].pos) = Punctuator("Comma")
        /\ \A c \in Turns : Calls[c].pos <= Len(tokens)
        /\ Cardinality(Turns) <= Len(tokens) + 1
        /\ Consumed <= Len(tokens)
        /\ \A c \in Turns :
               Calls[c].pos = Consumed =>
                   /\ \A d \in Turns : d <= c
                   /\ result.tag = "Err"
                   /\ result.val = AbruptEnd

\* Three turns of a loop, the third one returning at the end of the stream without a
\* token consumed.
C21_Witness ==
    /\ pc = "done"
    /\ Cardinality(Turns) = 3
    /\ \E c \in Turns : Calls[c].pos = Consumed /\ Consumed = Len(tokens)
    /\ result.tag = "Err"


(***************************************************************************)
(* Properties of Property::from_value                                      *)
(***************************************************************************)
\* The argument of the from_value call prop comes from, and what the call returned.
FromValueArgument == unwrap(prop_call).v
FromValueResult == unwrap(prop_call).res

BooleanFields == {"configurable", "enumerable", "writable"}
ValueFields == {"value", "get", "set"}

\* C22: Property::from_value never fails.  For every input value it returns Ok with all
\* six fields present; configurable, enumerable and writable hold the field's boolean
\* when the field converts to a boolean and Some(false) when it is missing or not
\* convertible, and value, get and set are always Some(field value), even when the
\* field is absent on the input (Some(undefined) then).
C22_FromValueNeverFails ==
    prop_src = "from_value" =>
        /\ Present(prop_call)
        /\ FromValueResult.tag = "Ok"
        /\ FromValueResult.val = prop
        /\ \A f \in FieldNames : Present(prop[f])
        /\ \A f \in BooleanFields :
               /\ prop[f] \in {Some(TRUE), Some(FALSE)}
               /\ \A b \in BOOLEAN : FromValueArgument[f] = Boolean(b) => prop[f] = Some(b)
               /\ FromValueArgument[f] \in {Absent, Undefined} => prop[f] = Some(FALSE)
               /\ prop[f] =
                      IF is_ok(from_value_bool(get_field_slice(FromValueArgument, f)))
                      THEN Some(from_value_bool(get_field_slice(FromValueArgument, f)).val)
                      ELSE Some(FALSE)
        /\ \A f \in ValueFields :
               prop[f] = IF FromValueArgument[f] = Absent
                         THEN Some(Undefined)
                         ELSE Some(FromValueArgument[f])

\* from_value on an object with configurable: true, writable: a function and get: a
\* function, and no other field: enumerable and writable come out Some(false), value
\* and set Some(undefined).
C22_Witness ==
    /\ prop_src = "from_value"
    /\ Present(prop_call)
    /\ FromValueArgument = [configurable |-> Boolean(TRUE), enumerable |-> Absent,
                            writable |-> Function(1), value |-> Absent,
                            get |-> Function(1), set |-> Absent]
    /\ prop = [configurable |-> Some(TRUE), enumerable |-> Some(FALSE),
               writable |-> Some(FALSE), value |-> Some(Undefined),
               get |-> Some(Function(1)), set |-> Some(Undefined)]

====
